---- MODULE Spec2Model ----
(***************************************************************************)
(* Model of margin-report: the margin-data poller (margin_data.rs), the    *)
(* report consumer (report_processor.rs), the bounded mpsc channel between *)
(* them and the join handling of main (main.rs).                           *)
(*                                                                         *)
(* Decimal amounts are modelled as integers.  Percentages returned by      *)
(* find_percentage_diff are kept in hundredths of a percent (scale 2), so  *)
(* 10% is 1000 and 1000% is 100000.                                        *)
(***************************************************************************)
EXTENDS Integers, Sequences, FiniteSets, TLC

\* ------------------------------------------------------------------ bounds
\* number of poll cycles explored
MaxCycles == 3
\* longest upstream response (rows) explored
MaxBatch == 2
\* capacity of the mpsc channel (1024 in main.rs, scaled down)
QueueCap == 2
\* how many steps the clock advances between the two instants it is read at
MaxTime == 1
\* seconds by which the clock advances
ClockStep == 60
\* largest absolute amount a pure function is applied to
MaxAmount == 6
\* longest time series an analyser is applied to (the requests ask for 50)
MaxSeries == 50
\* longest time series explored in every order of arrival
MaxShuffle == 4

\* ------------------------------------------------------------- data model
\* tracked assets, plus one asset of TO_EXCLUDE that upstream still returns
Assets == {"X", "Y"}

TO_EXCLUDE ==
    {"USD1", "USDT", "USDC", "USDP", "FDUSD", "BTC", "WBTC", "WBETH", "ETH",
     "SOL", "BNSOL", "XRP", "BNB", "ADA", "SUI", "LTC", "TRX", "PAXG", "DAI",
     "BFUSD"}

MarginData(a, b, r, bu, ru, av) ==
    [asset |-> a, total_borrow |-> b, total_repay |-> r,
     total_borrow_in_usdt |-> bu, total_repay_in_usdt |-> ru,
     available |-> av]

\* values upstream reports for asset X: from the first to the second the
\* borrowing grows by 1100% at a borrow/repay ratio of 6
SnapshotsX ==
    { MarginData("X", 100, 200, 1000, 2000, 10),
      MarginData("X", 1200, 200, 12000, 2000, 10) }

\* values upstream reports for asset Y: the second has nothing repaid yet
SnapshotsY ==
    { MarginData("Y", 0, 10, 0, 10, 0),
      MarginData("Y", 60, 0, 1000000, 0, 0) }

SnapshotsExcluded == { MarginData("BTC", 1, 1, 1, 1, 1) }

Snapshots == SnapshotsX \cup SnapshotsY

RawSnapshots == Snapshots \cup SnapshotsExcluded

EmptyMap == [a \in {} |-> 0]

Range(s) == { s[i] : i \in DOMAIN s }

\* upstream responses: at most MaxBatch rows, one row per asset
RawResponses ==
    { s \in UNION { [1..n -> RawSnapshots] : n \in 0..MaxBatch } :
        \A i, j \in DOMAIN s : i # j => s[i].asset # s[j].asset }

\* contents the cache may have been left with by an earlier run
InitialCaches ==
    UNION { { f \in [D -> Snapshots] : \A a \in D : f[a].asset = a } :
            D \in SUBSET Assets }

\* ------------------------------------------------------------------ events
NewMsg(item) == [type |-> "New", data |-> item]

UpdateMsg(old, new) == [type |-> "Update", old |-> old, new |-> new]

ErrorMsg(msg) == [type |-> "Error", msg |-> msg]

\* ------------------------------------------------------------ pure helpers
\* integer division truncating toward zero (Decimal::trunc_with_scale)
TruncDiv(a, b) ==
    IF b = 0 THEN 0
    ELSE LET q == (IF a < 0 THEN -a ELSE a) \div (IF b < 0 THEN -b ELSE b)
         IN IF (a < 0) = (b < 0) THEN q ELSE -q

\* variant: the quotient is rounded half away from zero to two places
find_percentage_diff_Rounded(new, old) ==
    IF old = 0 THEN 10000
    ELSE LET x == (new - old) * 10000
             q == TruncDiv(x, old)
             rest == x - q * old
             twice == IF rest < 0 THEN 0 - 2 * rest ELSE 2 * rest
             size == IF old < 0 THEN 0 - old ELSE old
         IN  IF twice < size THEN q
             ELSE IF (x < 0) = (old < 0) THEN q + 1 ELSE q - 1

\* variant: the ratio of new to old instead of the relative difference
find_percentage_diff_NewOverOld(new, old) ==
    IF old = 0 THEN 10000
    ELSE TruncDiv(new * 10000, old)

\* variant: nothing to compare with counts as no change
find_percentage_diff_ZeroOldIsZero(new, old) ==
    IF old = 0 THEN 0
    ELSE TruncDiv((new - old) * 10000, old)

\* utils.rs find_percentage_diff, result in hundredths of a percent
find_percentage_diff(new, old) ==
    IF old = 0 THEN 10000
    ELSE TruncDiv((new - old) * 10000, old)

\* Decimal::normalize on a mantissa and a scale: trailing zeros of the
\* fraction are stripped
RECURSIVE normalize(_, _)
normalize(mantissa, scale) ==
    IF scale > 0 /\ mantissa % 10 = 0
    THEN normalize(mantissa \div 10, scale - 1)
    ELSE [mantissa |-> mantissa, scale |-> scale]

borrow_change(u) == find_percentage_diff(u.new.total_borrow, u.old.total_borrow)

is_more_than_1m(u) == u.new.total_borrow_in_usdt >= 1000000

is_percent_changed_enough(u) == borrow_change(u) >= 1000

is_borrowing_rapidly_increased(u) == borrow_change(u) >= 100000

\* Decimal division panics on a zero divisor
DivisionPanics(u) == u.new.total_repay = 0

\* variant: the ratio test admits a ratio of exactly 5
is_borrow_big_enough_AtLeast(u) == u.new.total_borrow >= 5 * u.new.total_repay

\* total_borrow / total_repay > 5, for a non-zero non-negative divisor
is_borrow_big_enough(u) == u.new.total_borrow > 5 * u.new.total_repay

\* binance.rs get_margin_data_filtered
get_margin_data_filtered(raw) ==
    SelectSeq(raw, LAMBDA item : item.asset \notin TO_EXCLUDE)

\* Vec<MarginData> -> HashMap<asset, MarginData>, a later row wins
ToMap(items) ==
    [a \in { items[i].asset : i \in DOMAIN items } |->
        LET last == CHOOSE i \in DOMAIN items :
                       /\ items[i].asset = a
                       /\ \A j \in DOMAIN items : items[j].asset = a => j <= i
        IN items[last]]

\* HashMap::extend
Extend(m, u) ==
    [a \in DOMAIN m \cup DOMAIN u |-> IF a \in DOMAIN u THEN u[a] ELSE m[a]]

\* redis.rs set_margin_data_bulk: MSET of an empty list is rejected
SetBulkOutcomes(data) == IF data = <<>> THEN {"err"} ELSE {"ok", "err"}

\* variant: the Update is built with the new row in both places
ClassifyItem_OldIsNew(previous, item) ==
    IF item.asset \notin DOMAIN previous
    THEN <<NewMsg(item)>>
    ELSE IF previous[item.asset] # item
         THEN <<UpdateMsg(item, item)>>
         ELSE <<>>

\* the match of margin_data_processor on one row: the events it sends
ClassifyItem(previous, item) ==
    IF item.asset \notin DOMAIN previous
    THEN <<NewMsg(item)>>
    ELSE IF previous[item.asset] # item
         THEN <<UpdateMsg(previous[item.asset], item)>>
         ELSE <<>>

\* --------------------------------------------------------------- variables
VARIABLES
    cache,                \* redis keys margin-data-*: asset -> MarginData
    last_update,          \* redis keys last-update-*: asset -> stored text
    clock,                \* Utc::now(), in seconds
    margin_data,          \* MarginDataProcessor.margin_data
    loaded,               \* MarginDataProcessor::load has returned
    ppc,                  \* position of the poller task
    latest_binance_resp,  \* rows of the batch not yet classified
    previous_resp_data,   \* clone of margin_data taken by the cycle
    next_redis_updates,   \* rows staged for the bulk write
    report_queue,         \* buffer of the mpsc channel
    cpc,                  \* position of the consumer task
    mpc,                  \* position of main at try_join!
    cycle,                \* history: what the current cycle did
    prev_cycle,           \* history: what the cycle before did
    handled,              \* history: what the consumer did with the last event
    load_calls,           \* history: the collaborators load has called, kept for one cycle
    futures_symbols,      \* futures_symbols of the collector main hands to the refresher
    consumer_futures_symbols, \* futures_symbols of the collector inside ReportProcessor
    refreshed,            \* history: how the refresher's last round ended
    calc                  \* the last call of a pure function: arguments and result

vars == <<cache, last_update, clock, margin_data, loaded, ppc,
          latest_binance_resp, previous_resp_data, next_redis_updates,
          report_queue, cpc, mpc, cycle, prev_cycle, handled,
          futures_symbols, consumer_futures_symbols, refreshed, calc,
          load_calls>>

pollerVars == <<margin_data, loaded, ppc, latest_binance_resp,
                previous_resp_data, next_redis_updates, cycle, prev_cycle>>

consumerVars == <<last_update, clock, cpc, handled>>

otherVars == <<futures_symbols, consumer_futures_symbols, refreshed, calc,
               load_calls>>

NoCall == [fn |-> "none"]

NoCycle ==
    [n |-> 0, fetched |-> FALSE, batch |-> <<>>, before |-> EmptyMap,
     events |-> <<>>, writes |-> <<>>, outcome |-> "none"]

NoEvent == [type |-> "None"]

Init ==
    /\ cache \in InitialCaches
    /\ last_update = EmptyMap
    /\ clock = 0
    /\ margin_data = EmptyMap
    /\ loaded = FALSE
    /\ ppc = "load"
    /\ latest_binance_resp = <<>>
    /\ previous_resp_data = EmptyMap
    /\ next_redis_updates = <<>>
    /\ report_queue = <<>>
    /\ cpc = "recv"
    /\ mpc = "join"
    /\ cycle = NoCycle
    /\ prev_cycle = NoCycle
    /\ handled = [event |-> NoEvent, ops |-> <<>>]
    /\ futures_symbols = {}
    /\ consumer_futures_symbols = {}
    /\ refreshed = [round |-> "none"]
    /\ calc = NoCall
    /\ load_calls = <<>>

Running == mpc # "exited"

ReceiverOpen == cpc # "panicked"

\* ------------------------------------------------------------------ poller
\* what get_margin_data_filtered returns for the upstream responses
FilteredResponses == { get_margin_data_filtered(raw) : raw \in RawResponses }

\* MarginDataProcessor::load, redis read fails: expect() panics
LoadRedisErr ==
    /\ Running /\ ppc = "load"
    /\ ppc' = "panicked"
    /\ UNCHANGED <<cache, margin_data, loaded, latest_binance_resp,
                   previous_resp_data, next_redis_updates, cycle, prev_cycle,
                   report_queue, mpc>>
    /\ load_calls' = <<"get_all_margin_data">>
    /\ UNCHANGED consumerVars
    /\ UNCHANGED <<futures_symbols, consumer_futures_symbols, refreshed, calc>>

\* MarginDataProcessor::load, cache holds data
LoadFromCache ==
    /\ Running /\ ppc = "load"
    /\ DOMAIN cache # {}
    /\ margin_data' = cache
    /\ loaded' = TRUE
    /\ ppc' = "tick"
    /\ UNCHANGED <<cache, latest_binance_resp, previous_resp_data,
                   next_redis_updates, cycle, prev_cycle, report_queue, mpc>>
    /\ load_calls' = <<"get_all_margin_data">>
    /\ UNCHANGED consumerVars
    /\ UNCHANGED <<futures_symbols, consumer_futures_symbols, refreshed, calc>>

\* variant: the first launch fills the store and leaves the cache empty
LoadFirstLaunch_StoreOnly ==
    /\ Running /\ ppc = "load"
    /\ DOMAIN cache = {}
    /\ \/ /\ ppc' = "panicked"
          /\ load_calls' = <<"get_all_margin_data",
                             "get_margin_data_filtered">>
          /\ UNCHANGED <<margin_data, loaded>>
       \/ /\ load_calls' = <<"get_all_margin_data",
                             "get_margin_data_filtered">>
          /\ \E data \in FilteredResponses :
               /\ margin_data' = ToMap(data)
               /\ loaded' = TRUE
               /\ ppc' = "tick"
    /\ UNCHANGED <<cache, latest_binance_resp, previous_resp_data,
                   next_redis_updates, cycle, prev_cycle, report_queue, mpc>>
    /\ UNCHANGED consumerVars
    /\ UNCHANGED <<futures_symbols, consumer_futures_symbols, refreshed, calc>>

\* MarginDataProcessor::load, first launch: fetch and seed the cache
LoadFirstLaunch ==
    /\ Running /\ ppc = "load"
    /\ DOMAIN cache = {}
    /\ \/ /\ ppc' = "panicked"        \* the fetch fails
          /\ load_calls' = <<"get_all_margin_data",
                             "get_margin_data_filtered">>
          /\ UNCHANGED <<cache, margin_data, loaded>>
       \/ /\ load_calls' = <<"get_all_margin_data",
                             "get_margin_data_filtered",
                             "set_margin_data_bulk">>
          /\ \E data \in FilteredResponses :
               \E res \in SetBulkOutcomes(data) :
                  IF res = "ok"
                  THEN /\ cache' = ToMap(data)
                       /\ margin_data' = ToMap(data)
                       /\ loaded' = TRUE
                       /\ ppc' = "tick"
                  ELSE /\ ppc' = "panicked"
                       /\ UNCHANGED <<cache, margin_data, loaded>>
    /\ UNCHANGED <<latest_binance_resp, previous_resp_data,
                   next_redis_updates, cycle, prev_cycle, report_queue, mpc>>
    /\ UNCHANGED consumerVars
    /\ UNCHANGED <<futures_symbols, consumer_futures_symbols, refreshed, calc>>

StartCycle(fetched, batch, before) ==
    /\ prev_cycle' = cycle
    /\ cycle' = [n |-> cycle.n + 1, fetched |-> fetched, batch |-> batch,
                 before |-> before, events |-> <<>>, writes |-> <<>>,
                 outcome |-> "running"]
    \* the record of load is kept until the first cycle is over
    /\ load_calls' = IF cycle.n = 0 THEN load_calls ELSE <<>>

\* interval.tick(), the fetch fails
FetchErr ==
    /\ Running /\ ppc = "tick" /\ cycle.n < MaxCycles
    /\ StartCycle(FALSE, <<>>, margin_data)
    /\ ppc' = "send_fetch_error"
    /\ UNCHANGED <<cache, margin_data, loaded, latest_binance_resp,
                   previous_resp_data, next_redis_updates, report_queue, mpc>>
    /\ UNCHANGED consumerVars
    /\ UNCHANGED <<futures_symbols, consumer_futures_symbols, refreshed, calc>>

\* variant: the next tick fires while the cycle before is still in its loop
FetchOk_Overlapping ==
    /\ Running /\ ppc \in {"tick", "classify"} /\ cycle.n < MaxCycles
    /\ loaded
    /\ \E batch \in FilteredResponses :
         /\ latest_binance_resp' = batch
         /\ StartCycle(TRUE, batch, margin_data)
    /\ previous_resp_data' = margin_data
    /\ next_redis_updates' = <<>>
    /\ ppc' = "classify"
    /\ UNCHANGED <<cache, margin_data, loaded, report_queue, mpc>>
    /\ UNCHANGED consumerVars
    /\ UNCHANGED <<futures_symbols, consumer_futures_symbols, refreshed, calc>>

\* interval.tick(), the fetch succeeds, the store is cloned
FetchOk ==
    /\ Running /\ ppc = "tick" /\ cycle.n < MaxCycles
    /\ \E batch \in FilteredResponses :
         /\ latest_binance_resp' = batch
         /\ StartCycle(TRUE, batch, margin_data)
    /\ previous_resp_data' = margin_data
    /\ next_redis_updates' = <<>>
    /\ ppc' = "classify"
    /\ UNCHANGED <<cache, margin_data, loaded, report_queue, mpc>>
    /\ UNCHANGED consumerVars
    /\ UNCHANGED <<futures_symbols, consumer_futures_symbols, refreshed, calc>>

\* report_tx.send(msg).await.unwrap() followed by a move to position next:
\* suspends while the buffer is full, panics when the receiver is gone
SendThen(msg, next, outcome) ==
    IF ReceiverOpen
    THEN /\ Len(report_queue) < QueueCap
         /\ report_queue' = Append(report_queue, msg)
         /\ cycle' = [cycle EXCEPT !.events = Append(@, msg),
                                   !.outcome = outcome]
         /\ ppc' = next
    ELSE /\ ppc' = "panicked"
         /\ UNCHANGED <<report_queue, cycle>>

\* variant: the continue is missing, the loop body goes on after the Error
SendFetchError_NoContinue ==
    /\ Running /\ ppc = "send_fetch_error"
    /\ SendThen(ErrorMsg("fetch"), "classify", "fetch_failed")
    /\ UNCHANGED <<cache, margin_data, loaded, latest_binance_resp,
                   previous_resp_data, next_redis_updates, prev_cycle, mpc>>
    /\ UNCHANGED consumerVars
    /\ UNCHANGED otherVars

\* the Error message of a failed fetch, then continue
SendFetchError ==
    /\ Running /\ ppc = "send_fetch_error"
    /\ SendThen(ErrorMsg("fetch"), "tick", "fetch_failed")
    /\ UNCHANGED <<cache, margin_data, loaded, latest_binance_resp,
                   previous_resp_data, next_redis_updates, prev_cycle, mpc>>
    /\ UNCHANGED consumerVars
    /\ UNCHANGED otherVars

\* variant: a changed row is staged but its event is not sent
Classify_NoSend ==
    /\ Running /\ ppc = "classify"
    /\ latest_binance_resp # <<>>
    /\ LET item == Head(latest_binance_resp)
           msgs == ClassifyItem(previous_resp_data, item)
       IN /\ latest_binance_resp' = Tail(latest_binance_resp)
          /\ next_redis_updates' =
                IF msgs = <<>> THEN next_redis_updates
                ELSE Append(next_redis_updates, item)
    /\ UNCHANGED <<cache, margin_data, loaded, previous_resp_data, cycle,
                   ppc, prev_cycle, report_queue, mpc>>
    /\ UNCHANGED consumerVars
    /\ UNCHANGED otherVars

\* one iteration of the for loop over latest_binance_resp
Classify ==
    /\ Running /\ ppc = "classify"
    /\ latest_binance_resp # <<>>
    /\ LET item == Head(latest_binance_resp)
           msgs == ClassifyItem(previous_resp_data, item)
       IN IF msgs = <<>>
          THEN /\ latest_binance_resp' = Tail(latest_binance_resp)
               /\ UNCHANGED <<next_redis_updates, report_queue, cycle, ppc>>
          ELSE /\ SendThen(msgs[1], "classify", "running")
               /\ IF ReceiverOpen
                  THEN /\ next_redis_updates' = Append(next_redis_updates, item)
                       /\ latest_binance_resp' = Tail(latest_binance_resp)
                  ELSE UNCHANGED <<next_redis_updates, latest_binance_resp>>
    /\ UNCHANGED <<cache, margin_data, loaded, previous_resp_data,
                   prev_cycle, mpc>>
    /\ UNCHANGED consumerVars
    /\ UNCHANGED otherVars

\* the loop is over and nothing was staged: no write, next tick
NothingStaged ==
    /\ Running /\ ppc = "classify"
    /\ latest_binance_resp = <<>>
    /\ next_redis_updates = <<>>
    /\ cycle' = [cycle EXCEPT !.outcome = "unchanged"]
    /\ ppc' = "tick"
    /\ UNCHANGED <<cache, margin_data, loaded, latest_binance_resp,
                   previous_resp_data, next_redis_updates, prev_cycle,
                   report_queue, mpc>>
    /\ UNCHANGED consumerVars
    /\ UNCHANGED otherVars

\* variant: the cache is written but the store is not extended
BulkWriteOk_StoreNotExtended ==
    /\ Running /\ ppc = "classify"
    /\ latest_binance_resp = <<>>
    /\ next_redis_updates # <<>>
    /\ "ok" \in SetBulkOutcomes(next_redis_updates)
    /\ cache' = Extend(cache, ToMap(next_redis_updates))
    /\ cycle' = [cycle EXCEPT !.writes = Append(@, next_redis_updates),
                              !.outcome = "written"]
    /\ ppc' = "tick"
    /\ UNCHANGED <<margin_data, loaded, latest_binance_resp,
                   previous_resp_data, next_redis_updates, prev_cycle,
                   report_queue, mpc>>
    /\ UNCHANGED consumerVars
    /\ UNCHANGED otherVars

\* variant: the store is replaced by the written rows instead of extended
BulkWriteOk_StoreReplaced ==
    /\ Running /\ ppc = "classify"
    /\ latest_binance_resp = <<>>
    /\ next_redis_updates # <<>>
    /\ "ok" \in SetBulkOutcomes(next_redis_updates)
    /\ cache' = Extend(cache, ToMap(next_redis_updates))
    /\ margin_data' = ToMap(next_redis_updates)
    /\ cycle' = [cycle EXCEPT !.writes = Append(@, next_redis_updates),
                              !.outcome = "written"]
    /\ ppc' = "tick"
    /\ UNCHANGED <<loaded, latest_binance_resp, previous_resp_data,
                   next_redis_updates, prev_cycle, report_queue, mpc>>
    /\ UNCHANGED consumerVars
    /\ UNCHANGED otherVars

\* variant: the store keeps only the assets of the fetched batch
BulkWriteOk_OmittedDropped ==
    /\ Running /\ ppc = "classify"
    /\ latest_binance_resp = <<>>
    /\ next_redis_updates # <<>>
    /\ "ok" \in SetBulkOutcomes(next_redis_updates)
    /\ cache' = Extend(cache, ToMap(next_redis_updates))
    /\ margin_data' =
          [a \in { cycle.batch[i].asset : i \in DOMAIN cycle.batch } |->
              Extend(margin_data, ToMap(next_redis_updates))[a]]
    /\ cycle' = [cycle EXCEPT !.writes = Append(@, next_redis_updates),
                              !.outcome = "written"]
    /\ ppc' = "tick"
    /\ UNCHANGED <<loaded, latest_binance_resp, previous_resp_data,
                   next_redis_updates, prev_cycle, report_queue, mpc>>
    /\ UNCHANGED consumerVars
    /\ UNCHANGED otherVars

\* set_margin_data_bulk returns Ok: the staged rows are merged into the store
BulkWriteOk ==
    /\ Running /\ ppc = "classify"
    /\ latest_binance_resp = <<>>
    /\ next_redis_updates # <<>>
    /\ "ok" \in SetBulkOutcomes(next_redis_updates)
    /\ cache' = Extend(cache, ToMap(next_redis_updates))
    /\ margin_data' = Extend(margin_data, ToMap(next_redis_updates))
    /\ cycle' = [cycle EXCEPT !.writes = Append(@, next_redis_updates),
                              !.outcome = "written"]
    /\ ppc' = "tick"
    /\ UNCHANGED <<loaded, latest_binance_resp, previous_resp_data,
                   next_redis_updates, prev_cycle, report_queue, mpc>>
    /\ UNCHANGED consumerVars
    /\ UNCHANGED otherVars

\* variant: the first staged row is merged although the write failed
BulkWriteErr_PartialMerge ==
    /\ Running /\ ppc = "classify"
    /\ latest_binance_resp = <<>>
    /\ next_redis_updates # <<>>
    /\ "err" \in SetBulkOutcomes(next_redis_updates)
    /\ margin_data' = Extend(margin_data, ToMap(<<next_redis_updates[1]>>))
    /\ cycle' = [cycle EXCEPT !.writes = Append(@, next_redis_updates)]
    /\ ppc' = "send_write_error"
    /\ UNCHANGED <<cache, loaded, latest_binance_resp, previous_resp_data,
                   next_redis_updates, prev_cycle, report_queue, mpc>>
    /\ UNCHANGED consumerVars
    /\ UNCHANGED otherVars

\* variant: the staged rows are merged before the result of the write is known
BulkWriteErr_MergedAnyway ==
    /\ Running /\ ppc = "classify"
    /\ latest_binance_resp = <<>>
    /\ next_redis_updates # <<>>
    /\ "err" \in SetBulkOutcomes(next_redis_updates)
    /\ margin_data' = Extend(margin_data, ToMap(next_redis_updates))
    /\ cycle' = [cycle EXCEPT !.writes = Append(@, next_redis_updates)]
    /\ ppc' = "send_write_error"
    /\ UNCHANGED <<cache, loaded, latest_binance_resp, previous_resp_data,
                   next_redis_updates, prev_cycle, report_queue, mpc>>
    /\ UNCHANGED consumerVars
    /\ UNCHANGED otherVars

\* variant: a failed write is tried again within the same cycle
BulkWriteErr_Retry ==
    /\ Running /\ ppc = "classify"
    /\ latest_binance_resp = <<>>
    /\ next_redis_updates # <<>>
    /\ "err" \in SetBulkOutcomes(next_redis_updates)
    /\ Len(cycle.writes) < 2
    /\ cycle' = [cycle EXCEPT !.writes = Append(@, next_redis_updates)]
    /\ UNCHANGED <<cache, margin_data, loaded, ppc, latest_binance_resp,
                   previous_resp_data, next_redis_updates, prev_cycle,
                   report_queue, mpc>>
    /\ UNCHANGED consumerVars
    /\ UNCHANGED otherVars

\* set_margin_data_bulk returns Err: nothing is merged
BulkWriteErr ==
    /\ Running /\ ppc = "classify"
    /\ latest_binance_resp = <<>>
    /\ next_redis_updates # <<>>
    /\ "err" \in SetBulkOutcomes(next_redis_updates)
    /\ cycle' = [cycle EXCEPT !.writes = Append(@, next_redis_updates)]
    /\ ppc' = "send_write_error"
    /\ UNCHANGED <<cache, margin_data, loaded, latest_binance_resp,
                   previous_resp_data, next_redis_updates, prev_cycle,
                   report_queue, mpc>>
    /\ UNCHANGED consumerVars
    /\ UNCHANGED otherVars

\* the Error message of a failed bulk write, then next tick
SendWriteError ==
    /\ Running /\ ppc = "send_write_error"
    /\ SendThen(ErrorMsg("redis"), "tick", "write_failed")
    /\ UNCHANGED <<cache, margin_data, loaded, latest_binance_resp,
                   previous_resp_data, next_redis_updates, prev_cycle, mpc>>
    /\ UNCHANGED consumerVars
    /\ UNCHANGED otherVars

\* ---------------------------------------------------------------- consumer
\* set_last_update stores last_update.to_string(): chrono's Display of a
\* DateTime<Utc>, the date and time followed by the zone name
to_string(t) == [date_time |-> t, zone |-> "UTC"]

\* get_last_update: data.parse::<DateTime<Utc>>(); a value that does not
\* parse is logged and read as None (the empty sequence)
parse_datetime(s) == IF s.zone = "UTC" THEN <<s.date_time>> ELSE <<>>

\* process_new_reports, arm Error
ConsumeError ==
    /\ Running /\ cpc = "recv"
    /\ report_queue # <<>>
    /\ Head(report_queue).type = "Error"
    /\ report_queue' = Tail(report_queue)
    /\ handled' = [event |-> Head(report_queue),
                   ops |-> <<"send_error_message">>]
    /\ UNCHANGED <<cache, last_update, clock, cpc, mpc>>
    /\ UNCHANGED pollerVars
    /\ UNCHANGED otherVars

\* variant: a New event also records the time of the announcement
ConsumeNew_SavesTime ==
    /\ Running /\ cpc = "recv"
    /\ report_queue # <<>>
    /\ Head(report_queue).type = "New"
    /\ report_queue' = Tail(report_queue)
    /\ handled' = [event |-> Head(report_queue), ops |-> <<"send_message">>]
    /\ last_update' = Extend(last_update,
                             [a \in {Head(report_queue).data.asset} |->
                                 to_string(clock)])
    /\ UNCHANGED <<cache, clock, cpc, mpc>>
    /\ UNCHANGED pollerVars
    /\ UNCHANGED otherVars

\* process_new_reports, arm New
ConsumeNew ==
    /\ Running /\ cpc = "recv"
    /\ report_queue # <<>>
    /\ Head(report_queue).type = "New"
    /\ report_queue' = Tail(report_queue)
    /\ handled' = [event |-> Head(report_queue), ops |-> <<"send_message">>]
    /\ UNCHANGED <<cache, last_update, clock, cpc, mpc>>
    /\ UNCHANGED pollerVars
    /\ UNCHANGED otherVars

\* the part of the condition evaluated before is_borrow_big_enough
FirstOperand(u) ==
    \/ is_borrowing_rapidly_increased(u)
    \/ (is_more_than_1m(u) /\ is_percent_changed_enough(u))

\* variant: the borrow/repay ratio is not part of the condition
AlertCondition_IgnoresRatio(u) == FirstOperand(u)

\* variant: no alert while a last-update time is on record for the asset
AlertCondition_Cooldown(u) ==
    /\ FirstOperand(u) /\ is_borrow_big_enough(u)
    /\ u.new.asset \notin DOMAIN last_update

\* variant: a rapid increase alerts whatever the borrow/repay ratio is
AlertCondition_RapidBypassesRatio(u) ==
    \/ is_borrowing_rapidly_increased(u)
    \/ (FirstOperand(u) /\ is_borrow_big_enough(u))

\* the condition of process_margin_data_update, where it evaluates
AlertCondition(u) == FirstOperand(u) /\ is_borrow_big_enough(u)

\* greatest common divisor of two non-negative integers
RECURSIVE gcd(_, _)
gcd(a, b) == IF b = 0 THEN a ELSE gcd(b, a % b)

\* Decimal division of two non-negative amounts, the divisor not zero: the
\* quotient as a fraction in lowest terms
Quotient(a, b) ==
    LET g == gcd(a, b) IN [num |-> a \div g, den |-> b \div g]

repay_change(u) == find_percentage_diff(u.new.total_repay, u.old.total_repay)

borrow_repay_ratio(u) == Quotient(u.new.total_borrow, u.new.total_repay)

\* ReportCollector::build_margin_data_report
build_margin_data_report(margin_update) ==
    [total_borrow |-> margin_update.new.total_borrow,
     total_borrow_usdt |-> margin_update.new.total_borrow_in_usdt,
     total_repay |-> margin_update.new.total_repay,
     total_repay_usdt |-> margin_update.new.total_borrow_in_usdt,
     borrow_change |-> borrow_change(margin_update),
     repay_change |-> repay_change(margin_update),
     br_ratio |-> borrow_repay_ratio(margin_update),
     available |-> margin_update.new.available]

\* RedisService::get_last_update; got = "err" is a failed GET
get_last_update(symbol, got) ==
    IF got = "ok" /\ symbol \in DOMAIN last_update
    THEN parse_datetime(last_update[symbol])
    ELSE <<>>

\* ReportProcessor::get_last_update_time: an error or a missing value falls
\* back to Utc::now(), read after the call returned
get_last_update_time(symbol, got, fallback) ==
    LET r == get_last_update(symbol, got)
    IN  IF r = <<>> THEN fallback ELSE r[1]

SecondsPerMinute == 60

\* the remainder of the division truncating toward zero (the % of i64)
TruncRem(a, b) == a - b * TruncDiv(a, b)

\* TimeDifference::calculate
calculate(min_diff) ==
    LET total_hours == TruncDiv(min_diff, 60)
    IN [days |-> TruncDiv(total_hours, 24),
        hours |-> TruncRem(total_hours, 24),
        minutes |-> TruncRem(min_diff, 60)]

\* TimeDifference::is_none
is_none(time_diff) ==
    time_diff.days = 0 /\ time_diff.hours = 0 /\ time_diff.minutes = 0

\* Display of a TimeDifference: the positive parts with their units
fmt(time_diff) ==
    (IF time_diff.days > 0 THEN <<[n |-> time_diff.days, unit |-> "d"]>>
     ELSE <<>>)
    \o (IF time_diff.hours > 0 THEN <<[n |-> time_diff.hours, unit |-> "h"]>>
        ELSE <<>>)
    \o (IF time_diff.minutes > 0
        THEN <<[n |-> time_diff.minutes, unit |-> "min"]>>
        ELSE <<>>)

\* format_full_report: what follows "Last signal: "
LastSignal(updated) ==
    IF is_none(updated) THEN [text |-> "never", elapsed |-> <<>>]
    ELSE [text |-> "ago", elapsed |-> fmt(updated)]

\* the instants Utc::now() can return, the start and MaxTime clock steps
\* later, and those not before t
Instants == {0, MaxTime * ClockStep}

NotBefore(t) == { i \in Instants : i >= t }

\* TimeDelta::num_minutes: whole minutes, truncated toward zero
num_minutes(secs) == TruncDiv(secs, SecondsPerMinute)

\* ReportCollector::is_futures_symbol, on the collector the consumer owns
is_futures_symbol(pair) == pair \in consumer_futures_symbols

\* the calls of a fired alert, in the order of the code
FireOps ==
    <<"condition", "get_last_update", "build_report", "send_message",
      "set_last_update">>

\* variant: the timestamp saved is the instant of the save
SavedInstant_AtSave(now, done) == done

\* the instant handed to save_last_update_time
SavedInstant(now, done) == now

\* process_new_reports, arm Update: ReportProcessor::process_margin_data_update
ConsumeUpdate ==
    /\ Running /\ cpc = "recv"
    /\ report_queue # <<>>
    /\ Head(report_queue).type = "Update"
    /\ LET u == Head(report_queue) IN
       IF FirstOperand(u) /\ DivisionPanics(u)
       THEN \* the task unwinds, the receiver and its buffer are dropped
            /\ cpc' = "panicked"
            /\ report_queue' = <<>>
            /\ handled' = [event |-> u, ops |-> <<"condition", "panic">>]
            /\ UNCHANGED <<last_update, clock>>
       ELSE IF AlertCondition(u)
       THEN \E now \in NotBefore(clock), got \in {"ok", "err"},
               saved \in {"ok", "err"} :
            \E fallback \in NotBefore(now) : \E done \in NotBefore(fallback) :
            LET asset == u.new.asset
                last == get_last_update_time(asset, got, fallback)
            IN  /\ clock' = done
                /\ last_update' =
                      IF saved = "ok"
                      THEN Extend(last_update,
                                  [a \in {asset} |->
                                      to_string(SavedInstant(now, done))])
                      ELSE last_update
                /\ report_queue' = Tail(report_queue)
                /\ handled' = [event |-> u,
                               ops |-> FireOps,
                               margin_data |-> build_margin_data_report(u),
                               now |-> now,
                               min_diff |-> num_minutes(now - last),
                               last_signal |->
                                   LastSignal(calculate(
                                       num_minutes(now - last))),
                               futures |-> is_futures_symbol(asset \o "USDT")]
                /\ UNCHANGED cpc
       ELSE /\ report_queue' = Tail(report_queue)
            /\ handled' = [event |-> u, ops |-> <<"condition">>]
            /\ UNCHANGED <<last_update, clock, cpc>>
    /\ UNCHANGED <<cache, mpc>>
    /\ UNCHANGED pollerVars
    /\ UNCHANGED otherVars

\* -------------------------------------------------------------------- main
\* try_join! returns Err once a task has panicked; main reports it
MainJoinError ==
    /\ mpc = "join"
    /\ ppc = "panicked" \/ cpc = "panicked"
    /\ IF ReceiverOpen
       THEN /\ Len(report_queue) < QueueCap
            /\ report_queue' = Append(report_queue, ErrorMsg("join"))
            /\ mpc' = "warn"
       ELSE \* send(..).await.unwrap() panics in main
            /\ mpc' = "exited"
            /\ UNCHANGED report_queue
    /\ UNCHANGED cache
    /\ UNCHANGED pollerVars
    /\ UNCHANGED consumerVars
    /\ UNCHANGED otherVars

\* main returns, the runtime shuts down and cancels the tasks
MainReturn ==
    /\ mpc = "warn"
    /\ mpc' = "exited"
    /\ UNCHANGED <<cache, report_queue>>
    /\ UNCHANGED pollerVars
    /\ UNCHANGED consumerVars
    /\ UNCHANGED otherVars

Next ==
    \/ LoadRedisErr
    \/ LoadFromCache
    \/ LoadFirstLaunch
    \/ FetchErr
    \/ FetchOk
    \/ SendFetchError
    \/ Classify
    \/ NothingStaged
    \/ BulkWriteOk
    \/ BulkWriteErr
    \/ SendWriteError
    \/ ConsumeError
    \/ ConsumeNew
    \/ ConsumeUpdate
    \/ MainJoinError
    \/ MainReturn

Spec == Init /\ [][Next]_vars

TypeOK ==
    /\ ppc \in {"load", "tick", "send_fetch_error", "classify",
                "send_write_error", "panicked"}
    /\ cpc \in {"recv", "panicked"}
    /\ mpc \in {"join", "warn", "exited"}
    /\ Len(report_queue) <= QueueCap
    /\ clock \in Instants

\* ------------------------------------------- consumer with a richer domain
\* snapshots around the thresholds of the alert condition: borrowing changes
\* of 9%, 10%, 999%, 1000% and 1100% from 100, borrow/repay ratios below, at
\* and above 5, borrowed USDT below and at 1,000,000, nothing repaid
PolicySnapshots ==
    { MarginData("X", b, r, bu, 100, 10) :
        b \in {0, 100, 109, 110, 1099, 1100, 1200},
        r \in {0, 20, 200, 220, 240},
        bu \in {999999, 1000000} }

PolicyEvents ==
    { UpdateMsg(old, new) : old \in PolicySnapshots, new \in PolicySnapshots }
      \ { UpdateMsg(s, s) : s \in PolicySnapshots }

\* the state after a start from a cache holding e.old and one cycle that
\* fetched e.new and wrote it: the poller waits for its next tick and the
\* Update e is in the channel
InitConsumer ==
    \E e \in PolicyEvents :
        /\ cache = [a \in {"X"} |-> e.new]
        /\ last_update \in {EmptyMap, [a \in {"X"} |-> to_string(0)]}
        /\ clock = 0
        /\ margin_data = [a \in {"X"} |-> e.new]
        /\ loaded = TRUE
        /\ ppc = "tick"
        /\ latest_binance_resp = <<>>
        /\ previous_resp_data = [a \in {"X"} |-> e.old]
        /\ next_redis_updates = <<e.new>>
        /\ report_queue = <<e>>
        /\ cpc = "recv"
        /\ mpc = "join"
        /\ cycle = [n |-> 1, fetched |-> TRUE, batch |-> <<e.new>>,
                    before |-> [a \in {"X"} |-> e.old], events |-> <<e>>,
                    writes |-> << <<e.new>> >>, outcome |-> "written"]
        /\ prev_cycle = NoCycle
        /\ handled = [event |-> NoEvent, ops |-> <<>>]
        /\ futures_symbols = {}
        /\ consumer_futures_symbols = {}
        /\ refreshed = [round |-> "none"]
        /\ calc = NoCall
        /\ load_calls = <<"get_all_margin_data">>

NextConsumer ==
    \/ ConsumeUpdate
    \/ MainJoinError

SpecConsumer == InitConsumer /\ [][NextConsumer]_vars

\* ------------------------------------------------ refresher and two alerts
\* rows of the futures exchange info: a listed perpetual, one being settled
\* and a dated contract
FuturesListings ==
    { [symbol |-> "XUSDT", status |-> "TRADING", contract_type |-> "PERPETUAL"],
      [symbol |-> "YUSDT", status |-> "TRADING", contract_type |-> "PERPETUAL"],
      [symbol |-> "ZUSDT", status |-> "SETTLING", contract_type |-> "PERPETUAL"],
      [symbol |-> "WUSDT", status |-> "TRADING",
       contract_type |-> "CURRENT_QUARTER"] }

\* ReportCollector::get_futures_exchange_info_pairs, on a response
get_futures_exchange_info_pairs(symbols) ==
    { item.symbol : item \in { i \in symbols :
                                  /\ i.status = "TRADING"
                                  /\ i.contract_type = "PERPETUAL" } }

\* periodic_futures_pairs_update, arm Err: the failure is logged
RefreshErr ==
    /\ Running
    /\ refreshed' = [round |-> "err"]
    /\ UNCHANGED <<cache, report_queue, mpc, futures_symbols,
                   consumer_futures_symbols, calc, load_calls>>
    /\ UNCHANGED pollerVars
    /\ UNCHANGED consumerVars

\* variant: the set is replaced by the symbols of the latest response
RefreshOk_Replaced ==
    /\ Running
    /\ \E symbols \in SUBSET FuturesListings :
          LET data == get_futures_exchange_info_pairs(symbols)
          IN /\ futures_symbols' = data
             /\ refreshed' = [round |-> "ok", data |-> data]
    /\ UNCHANGED <<cache, report_queue, mpc, consumer_futures_symbols, calc,
                   load_calls>>
    /\ UNCHANGED pollerVars
    /\ UNCHANGED consumerVars

\* periodic_futures_pairs_update, arm Ok: the collector of main is extended
RefreshOk ==
    /\ Running
    /\ \E symbols \in SUBSET FuturesListings :
          LET data == get_futures_exchange_info_pairs(symbols)
          IN /\ futures_symbols' = futures_symbols \cup data
             /\ refreshed' = [round |-> "ok", data |-> data]
    /\ UNCHANGED <<cache, report_queue, mpc, consumer_futures_symbols, calc,
                   load_calls>>
    /\ UNCHANGED pollerVars
    /\ UNCHANGED consumerVars

\* snapshots of X that make consecutive updates satisfy the condition:
\* 100 -> 1200 and 1400 -> 14400 grow by more than 1000%, 1200 -> 1400 by
\* 16.66% at 1,000,000 USDT; every ratio to the 200 repaid is above 5
AlertSnapshots ==
    { MarginData("X", b, 200, 1000000, 100, 10) : b \in {100, 1200, 1400, 14400} }

\* values found under the key last-update-X: written by an earlier run 61,
\* 60 and 59 seconds or just before the start, or not a date at all
StoredTimes ==
    { to_string(t) : t \in {0 - 61, 0 - 60, 0 - 59, 0} }
        \cup { [date_time |-> 0, zone |-> "?"] }

\* the state after two cycles that each fetched and wrote a change of X
\* while the consumer was busy: both Updates are in the channel
InitAlerts ==
    \E s0 \in AlertSnapshots, s1 \in AlertSnapshots, s2 \in AlertSnapshots :
        /\ s0 # s1 /\ s1 # s2
        /\ cache = [a \in {"X"} |-> s2]
        /\ last_update \in {EmptyMap} \cup { [a \in {"X"} |-> v] : v \in StoredTimes }
        /\ clock = 0
        /\ margin_data = [a \in {"X"} |-> s2]
        /\ loaded = TRUE
        /\ ppc = "tick"
        /\ latest_binance_resp = <<>>
        /\ previous_resp_data = [a \in {"X"} |-> s1]
        /\ next_redis_updates = <<s2>>
        /\ report_queue = <<UpdateMsg(s0, s1), UpdateMsg(s1, s2)>>
        /\ cpc = "recv"
        /\ mpc = "join"
        /\ cycle = [n |-> 2, fetched |-> TRUE, batch |-> <<s2>>,
                    before |-> [a \in {"X"} |-> s1],
                    events |-> <<UpdateMsg(s1, s2)>>,
                    writes |-> << <<s2>> >>, outcome |-> "written"]
        /\ prev_cycle = [n |-> 1, fetched |-> TRUE, batch |-> <<s1>>,
                         before |-> [a \in {"X"} |-> s0],
                         events |-> <<UpdateMsg(s0, s1)>>,
                         writes |-> << <<s1>> >>, outcome |-> "written"]
        /\ handled = [event |-> NoEvent, ops |-> <<>>]
        /\ futures_symbols = {}
        /\ consumer_futures_symbols = {}
        /\ refreshed = [round |-> "none"]
        /\ calc = NoCall
        /\ load_calls = <<"get_all_margin_data">>

NextAlerts ==
    \/ ConsumeUpdate
    \/ RefreshOk
    \/ RefreshErr

SpecAlerts == InitAlerts /\ [][NextAlerts]_vars

\* ------------------------------------------------------- percentage alone
Amounts == (0 - MaxAmount)..MaxAmount

InitPercent == Init /\ cache = EmptyMap

\* one call of find_percentage_diff: the value and the Decimal returned
ApplyPercentage ==
    /\ \E new \in Amounts, old \in Amounts :
          calc' = [fn |-> "find_percentage_diff", new |-> new, old |-> old,
                   result |-> find_percentage_diff(new, old),
                   decimal |-> normalize(find_percentage_diff(new, old), 2)]
    /\ UNCHANGED <<cache, report_queue, mpc, futures_symbols,
                   consumer_futures_symbols, refreshed, load_calls>>
    /\ UNCHANGED pollerVars
    /\ UNCHANGED consumerVars

NextPercent == ApplyPercentage

SpecPercent == InitPercent /\ [][NextPercent]_vars

\* ------------------------------------------------------ poll alignment alone
\* instants are whole seconds counted from the midnight of day 0
\* (calculate_delay_secs drops the sub-second part before the call)
HMS(day, h, m, s) == day * 86400 + h * 3600 + m * 60 + s

\* Timelike::minute and Timelike::second
minute(date) == (date \div 60) % 60

second(date) == date % 60

\* variant: without the extra minute
get_time_slot_NoMargin(date) ==
    LET left_until_5_min_interval == minute(date) % 5
        until_next_interval ==
            IF left_until_5_min_interval = 0
            THEN left_until_5_min_interval
            ELSE 5 - left_until_5_min_interval
    IN  date + (until_next_interval * 60 - second(date))

\* variant: a minute on the grid waits for the next grid minute as well
get_time_slot_AlwaysNext(date) ==
    LET left_until_5_min_interval == minute(date) % 5
        until_next_interval == 5 - left_until_5_min_interval
    IN  date + ((until_next_interval + 1) * 60 - second(date))

\* utils.rs get_time_slot
get_time_slot(date) ==
    LET left_until_5_min_interval == minute(date) % 5
        until_next_interval ==
            IF left_until_5_min_interval = 0
            THEN left_until_5_min_interval
            ELSE 5 - left_until_5_min_interval
        delay == until_next_interval + 1
    IN  date + (delay * 60 - second(date))

\* utils.rs calculate_delay_secs for now; try_into::<u64>().expect(..) fails
\* on a negative number of seconds
calculate_delay_secs(now) ==
    LET secs == get_time_slot(now) - now
    IN  [secs |-> secs, failed |-> secs < 0]

\* the hours the instants are taken from: one in the day, the last of the day
SlotHours == {18, 23}

SlotInstants ==
    { HMS(0, h, m, s) : h \in SlotHours, m \in 0..59, s \in 0..59 }

InitSlot == Init /\ cache = EmptyMap

\* the one call of calculate_delay_secs, made by main at the instant now
ApplyTimeSlot ==
    /\ calc = NoCall
    /\ \E now \in SlotInstants :
          calc' = [fn |-> "get_time_slot", date |-> now,
                   result |-> get_time_slot(now),
                   delay |-> calculate_delay_secs(now)]
    /\ UNCHANGED <<cache, report_queue, mpc, futures_symbols,
                   consumer_futures_symbols, refreshed, load_calls>>
    /\ UNCHANGED pollerVars
    /\ UNCHANGED consumerVars

NextSlot == ApplyTimeSlot

SpecSlot == InitSlot /\ [][NextSlot]_vars

\* ------------------------------------------------- windowed series alone
\* times are whole minutes; upstream samples every series every 5 minutes
GridMinutes == 5

\* open time of the newest closed sample of a series
LatestTime == HMS(0, 10, 0, 0) \div 60

Intervals == {"now", "5m", "15m", "1h", "4h"}

INTERVALS == <<"5m", "15m", "1h", "4h">>

\* variant: one hour back is eleven samples back
index_H1Eleven(interval) ==
    CASE interval = "now" -> 0
      [] interval = "5m"  -> 1
      [] interval = "15m" -> 3
      [] interval = "1h"  -> 11
      [] interval = "4h"  -> 48

\* Interval::index
index(interval) ==
    CASE interval = "now" -> 0
      [] interval = "5m"  -> 1
      [] interval = "15m" -> 3
      [] interval = "1h"  -> 12
      [] interval = "4h"  -> 48

\* variant: positions are counted from one
get_OneBased(s, i) == IF i >= 1 /\ i <= Len(s) THEN <<s[i]>> ELSE <<>>

\* Vec::get: the element at the zero-based position i, if there is one
get(s, i) == IF i < Len(s) THEN <<s[i + 1]>> ELSE <<>>

\* Vec::first
first(s) == get(s, 0)

\* variant: the series is used in the order of arrival
sort_by_desc_AsArrived(s, key) == s

\* sort_by(|item1, item2| item2.key.cmp(&item1.key)): a stable sort, the
\* newest sample first; samples of equal key keep their order
sort_by_desc(s, key) ==
    LET RECURSIVE Sorted(_)
        Sorted(k) ==
            IF k = 0 THEN <<>>
            ELSE LET x == s[k]
                     done == Sorted(k - 1)
                 IN SelectSeq(done, LAMBDA y : y[key] >= x[key]) \o <<x>>
                    \o SelectSeq(done, LAMBDA y : y[key] < x[key])
    IN Sorted(Len(s))

\* INTERVALS.iter().filter_map(|interval| series.get(interval.index())
\*     .map(|p| (interval, p))): the windows the series is long enough for
RECURSIVE resolve(_, _)
resolve(series, intervals) ==
    IF intervals = <<>> THEN <<>>
    ELSE LET found == get(series, index(Head(intervals)))
         IN (IF found = <<>> THEN <<>>
             ELSE <<[interval |-> Head(intervals), point |-> found[1]]>>)
            \o resolve(series, Tail(intervals))

\* variant: candles still open are kept
filter_sort_candles_volumes_NoFilter(volumes) ==
    sort_by_desc(volumes, "open_time")

filter_sort_candles_volumes(volumes) ==
    sort_by_desc(SelectSeq(volumes, LAMBDA vol : vol.is_closed), "open_time")

calculate_volume_changes(volumes0) ==
    LET volumes == filter_sort_candles_volumes(volumes0)
        latest == first(volumes)
        found == resolve(volumes, INTERVALS)
    IN IF latest = <<>> THEN <<>>
       ELSE [i \in 1..Len(found) |->
               [interval |-> found[i].interval,
                sell |-> find_percentage_diff(latest[1].sell_quote_volume,
                                              found[i].point.sell_quote_volume),
                buy |-> find_percentage_diff(latest[1].buy_quote_volume,
                                             found[i].point.buy_quote_volume)]]

\* variant: the change of the older sample against the latest one
calculate_open_interest_changes_Swapped(open_interest0) ==
    LET open_interest == sort_by_desc(open_interest0, "datetime")
        recent == first(open_interest)
        found == resolve(open_interest, INTERVALS)
    IN IF recent = <<>> THEN <<>>
       ELSE [i \in 1..Len(found) |->
               [interval |-> found[i].interval,
                change |-> find_percentage_diff(
                               found[i].point.sum_open_interest_value,
                               recent[1].sum_open_interest_value)]]

calculate_open_interest_changes(open_interest0) ==
    LET open_interest == sort_by_desc(open_interest0, "datetime")
        recent == first(open_interest)
        found == resolve(open_interest, INTERVALS)
    IN IF recent = <<>> THEN <<>>
       ELSE [i \in 1..Len(found) |->
               [interval |-> found[i].interval,
                change |-> find_percentage_diff(
                               recent[1].sum_open_interest_value,
                               found[i].point.sum_open_interest_value)]]

\* Decimal::trunc_with_scale: the fractional digits beyond scale are cut off
RECURSIVE trunc_with_scale(_, _)
trunc_with_scale(d, scale) ==
    IF d.scale <= scale THEN d
    ELSE trunc_with_scale([mantissa |-> TruncDiv(d.mantissa, 10),
                           scale |-> d.scale - 1], scale)

\* variant: a ratio of four fractional digits is rounded half up to two
ratio_2dp_Rounded(d) ==
    LET t == trunc_with_scale([mantissa |-> d.mantissa + 50,
                               scale |-> d.scale], 2)
    IN normalize(t.mantissa, t.scale)

\* ratio.long_short_ratio.trunc_with_scale(2).normalize()
ratio_2dp(d) ==
    LET t == trunc_with_scale(d, 2) IN normalize(t.mantissa, t.scale)

\* variant: without a sample the now entry is emitted with a ratio of zero
get_long_short_ratios_NowAlways(ratios0) ==
    LET ratios == sort_by_desc(ratios0, "datetime")
        recent == first(ratios)
        found == resolve(ratios, INTERVALS)
        data == [i \in 1..Len(found) |->
                   [interval |-> found[i].interval,
                    ratio |-> ratio_2dp(found[i].point.long_short_ratio)]]
    IN <<[interval |-> "now",
          ratio |-> IF recent = <<>> THEN normalize(0, 0)
                    ELSE ratio_2dp(recent[1].long_short_ratio)]>> \o data

get_long_short_ratios(ratios0) ==
    LET ratios == sort_by_desc(ratios0, "datetime")
        recent == first(ratios)
        found == resolve(ratios, INTERVALS)
        data == [i \in 1..Len(found) |->
                   [interval |-> found[i].interval,
                    ratio |-> ratio_2dp(found[i].point.long_short_ratio)]]
    IN IF recent = <<>> THEN <<>>
       ELSE <<[interval |-> "now",
               ratio |-> ratio_2dp(recent[1].long_short_ratio)]>> \o data

\* --- the series the analysers are applied to
\* grid positions (0 = newest) of the n samples of a series, newest first;
\* with gap > 0 the sample at grid position gap is missing
GridPositions(n, gap) ==
    [i \in 1..n |-> IF gap > 0 /\ i - 1 >= gap THEN i ELSE i - 1]

Reverse(s) == [i \in 1..Len(s) |-> s[Len(s) + 1 - i]]

\* upstream returns a series oldest first; the analysers sort it themselves
Ordered(newest_first, order) ==
    IF order = "asc" THEN Reverse(newest_first) ELSE newest_first

TimeAt(k) == LatestTime - GridMinutes * k

Candle(k, seed, closed) ==
    [open_time |-> TimeAt(k), close_time |-> TimeAt(k) + GridMinutes,
     is_closed |-> closed,
     sell_quote_volume |-> (seed * 13 * (k + 2)) % 47,
     buy_quote_volume |-> 20 + ((seed * 7 * (k + 2)) % 31)]

OpenInterest(k, seed) ==
    [datetime |-> TimeAt(k),
     sum_open_interest_value |-> 500 + ((seed * 11 * k) % 89)]

\* a ratio has four fractional digits
LongShortRatio(k, seed) ==
    [datetime |-> TimeAt(k),
     long_short_ratio |-> [mantissa |-> 35000 + ((seed * 1375 * (k + 1)) % 9970),
                           scale |-> 4]]

SeriesLengths == 0..MaxSeries

Orders == {"asc", "desc"}

Gaps == {0, 2}

Seeds == {1, 2}

\* the candles of a response: n closed ones and, with open, the candle
\* still being built, which is the newest
CandleSeries(n, gap, seed, order, open) ==
    LET ks == GridPositions(n, gap)
        closed == [i \in 1..n |-> Candle(ks[i], seed, TRUE)]
        all == IF open THEN <<Candle(-1, seed, FALSE)>> \o closed ELSE closed
    IN Ordered(all, order)

OpenInterestSeries(n, gap, seed, order) ==
    LET ks == GridPositions(n, gap)
    IN Ordered([i \in 1..n |-> OpenInterest(ks[i], seed)], order)

LongShortRatioSeries(n, gap, seed, order) ==
    LET ks == GridPositions(n, gap)
    IN Ordered([i \in 1..n |-> LongShortRatio(ks[i], seed)], order)

InitSeries == Init /\ cache = EmptyMap

SeriesUnchanged ==
    /\ UNCHANGED <<cache, report_queue, mpc, futures_symbols,
                   consumer_futures_symbols, refreshed, load_calls>>
    /\ UNCHANGED pollerVars
    /\ UNCHANGED consumerVars

\* one call of Interval::index
ApplyIndex ==
    /\ calc = NoCall
    /\ \E interval \in Intervals :
          calc' = [fn |-> "index", interval |-> interval,
                   result |-> index(interval)]
    /\ SeriesUnchanged

\* the one call of calculate_volume_changes of a report
ApplyVolumeChanges ==
    /\ calc = NoCall
    /\ \E n \in SeriesLengths, gap \in Gaps, seed \in Seeds,
          order \in Orders, open \in BOOLEAN :
          LET volumes == CandleSeries(n, gap, seed, order, open)
          IN calc' = [fn |-> "calculate_volume_changes",
                      input |-> volumes, key |-> "open_time",
                      gapless |-> (gap = 0 \/ n <= gap),
                      windows |-> resolve(filter_sort_candles_volumes(volumes),
                                          INTERVALS),
                      result |-> calculate_volume_changes(volumes)]
    /\ SeriesUnchanged

\* the one call of calculate_open_interest_changes of a report
ApplyOpenInterestChanges ==
    /\ calc = NoCall
    /\ \E n \in SeriesLengths, gap \in Gaps, seed \in Seeds,
          order \in Orders :
          LET open_interest == OpenInterestSeries(n, gap, seed, order)
          IN calc' = [fn |-> "calculate_open_interest_changes",
                      input |-> open_interest, key |-> "datetime",
                      gapless |-> (gap = 0 \/ n <= gap),
                      windows |-> resolve(sort_by_desc(open_interest,
                                                       "datetime"), INTERVALS),
                      result |->
                          calculate_open_interest_changes(open_interest)]
    /\ SeriesUnchanged

\* the one call of get_long_short_ratios of a report
ApplyLongShortRatios ==
    /\ calc = NoCall
    /\ \E n \in SeriesLengths, gap \in Gaps, seed \in Seeds,
          order \in Orders :
          LET ratios == LongShortRatioSeries(n, gap, seed, order)
          IN calc' = [fn |-> "get_long_short_ratios",
                      input |-> ratios, key |-> "datetime",
                      gapless |-> (gap = 0 \/ n <= gap),
                      windows |-> resolve(sort_by_desc(ratios, "datetime"),
                                          INTERVALS),
                      result |-> get_long_short_ratios(ratios)]
    /\ SeriesUnchanged

\* --- one series in two orders of arrival
Analysers == {"calculate_volume_changes", "calculate_open_interest_changes",
              "get_long_short_ratios"}

Analyse(fn, series) ==
    CASE fn = "calculate_volume_changes" -> calculate_volume_changes(series)
      [] fn = "calculate_open_interest_changes"
            -> calculate_open_interest_changes(series)
      [] fn = "get_long_short_ratios" -> get_long_short_ratios(series)

\* the samples of a response, newest first
SeriesOf(fn, n, gap, seed, open) ==
    CASE fn = "calculate_volume_changes"
            -> CandleSeries(n, gap, seed, "desc", open)
      [] fn = "calculate_open_interest_changes"
            -> OpenInterestSeries(n, gap, seed, "desc")
      [] fn = "get_long_short_ratios"
            -> LongShortRatioSeries(n, gap, seed, "desc")

SortedOf(fn, series) ==
    IF fn = "calculate_volume_changes"
    THEN filter_sort_candles_volumes(series)
    ELSE sort_by_desc(series, "datetime")

\* lengths of the series whose order of arrival is varied
ShuffledLengths == (0..MaxShuffle) \cup {13, MaxSeries - 1}

\* orders of arrival of len samples: all of them for a short series, the
\* rotations and the strides of 3, 11 and len - 1 for a long one
Orderings(len) ==
    IF len <= MaxShuffle + 1
    THEN { f \in [1..len -> 1..len] :
             \A i, j \in 1..len : i # j => f[i] # f[j] }
    ELSE { f \in { [i \in 1..len |-> ((i + r) % len) + 1] : r \in 1..len }
               \cup { [i \in 1..len |-> ((i * m) % len) + 1] :
                        m \in {3, 11, len - 1} } :
             \A i, j \in 1..len : i # j => f[i] # f[j] }

Arrange(series, f) == [i \in 1..Len(series) |-> series[f[i]]]

\* an analyser called on a response and on the same samples newest first
ApplyReordered ==
    /\ calc = NoCall
    /\ \E fn \in Analysers, n \in ShuffledLengths, gap \in Gaps,
          seed \in Seeds, open \in BOOLEAN :
          /\ open => fn = "calculate_volume_changes"
          /\ LET newest_first == SeriesOf(fn, n, gap, seed, open)
             IN \E f \in Orderings(Len(newest_first)) :
                   LET series == Arrange(newest_first, f)
                   IN calc' = [fn |-> fn,
                               input |-> series,
                               key |-> IF fn = "calculate_volume_changes"
                                       THEN "open_time" ELSE "datetime",
                               gapless |-> (gap = 0 \/ n <= gap),
                               windows |-> resolve(SortedOf(fn, series),
                                                   INTERVALS),
                               result |-> Analyse(fn, series),
                               reordered |-> newest_first,
                               result_reordered |->
                                   Analyse(fn, newest_first)]
    /\ SeriesUnchanged

NextSeries ==
    \/ ApplyIndex
    \/ ApplyVolumeChanges
    \/ ApplyOpenInterestChanges
    \/ ApplyLongShortRatios
    \/ ApplyReordered

SpecSeries == InitSeries /\ [][NextSeries]_vars

\* ------------------------------------------------------------------ claims
IsChange(e) == e.type \in {"New", "Update"}

Changes(events) == SelectSeq(events, IsChange)

Errors(events) == SelectSeq(events, LAMBDA e : e.type = "Error")

\* rows of the current batch the for loop has gone through
Classified ==
    SubSeq(cycle.batch, 1, Len(cycle.batch) - Len(latest_binance_resp))

Differs(store, s) == s.asset \notin DOMAIN store \/ store[s.asset] # s

CycleOver == cycle.outcome \in {"fetch_failed", "unchanged", "written",
                                "write_failed"}

\* C1: in a cycle whose fetch succeeded, the New/Update events sent so far
\* are, in batch order, exactly one New(s) for every classified row s whose
\* asset the store at the start of the cycle lacks and exactly one
\* Update(old = p, new = s) for every classified row that differs from its
\* stored entry p; rows equal to their stored entry send nothing and are not
\* staged.
C1_Classification ==
    cycle.fetched =>
        LET changed == SelectSeq(Classified,
                                 LAMBDA s : Differs(cycle.before, s))
        IN /\ Len(Changes(cycle.events)) = Len(changed)
           /\ \A i \in DOMAIN changed :
                Changes(cycle.events)[i] =
                    IF changed[i].asset \in DOMAIN cycle.before
                    THEN UpdateMsg(cycle.before[changed[i].asset], changed[i])
                    ELSE NewMsg(changed[i])
           /\ next_redis_updates = changed

C1_Witness ==
    /\ cycle.fetched /\ CycleOver
    /\ \E e \in Range(cycle.events) : e.type = "New"
    /\ \E e \in Range(cycle.events) : e.type = "Update"

\* C2: once load has returned, the store equals the cache, whatever fetches
\* and bulk writes succeeded or failed.
C2_StoreIsCache == loaded => margin_data = cache

C2_Witness ==
    /\ loaded
    /\ prev_cycle.outcome = "write_failed"
    /\ cycle.outcome = "written"
    /\ margin_data # cycle.before

\* C3: after a cycle whose bulk write failed the store is the store the
\* cycle started with and the cycle sent exactly one Error event.
C3_FailedWrite ==
    /\ ppc = "send_write_error" => margin_data = cycle.before
    /\ cycle.outcome = "write_failed" =>
          /\ margin_data = cycle.before
          /\ Len(Errors(cycle.events)) = 1

C3_Witness ==
    /\ cycle.outcome = "write_failed"
    /\ Len(cycle.writes[1]) = 2

\* C4 as stated: a cycle whose bulk write fails has delivered no New or
\* Update event.
C4_Original ==
    (ppc = "send_write_error" \/ cycle.outcome = "write_failed")
        => Changes(cycle.events) = <<>>

\* C4 amended: when the bulk write of a cycle fails, the New/Update events of
\* the batch, one per staged row, are already in the channel; the Error
\* event follows them as the last event of the cycle.
C4_Amended ==
    /\ ppc = "send_write_error" =>
          /\ cycle.events # <<>>
          /\ cycle.events = Changes(cycle.events)
          /\ Len(cycle.events) = Len(cycle.writes[1])
    /\ cycle.outcome = "write_failed" =>
          LET n == Len(cycle.events) IN
          /\ n >= 2
          /\ cycle.events[n] = ErrorMsg("redis")
          /\ \A i \in 1..(n - 1) : IsChange(cycle.events[i])
          /\ n - 1 = Len(cycle.writes[1])

C4_Witness ==
    /\ cycle.outcome = "write_failed"
    /\ \E e \in Range(cycle.events) : e.type = "New"

\* C5: when the bulk write of a cycle failed and the next cycle fetches the
\* same batch, the next cycle classifies against the same store and sends
\* the same New/Update events.
C5_Redelivery ==
    ( /\ prev_cycle.outcome = "write_failed"
      /\ cycle.fetched
      /\ cycle.batch = prev_cycle.batch
      /\ latest_binance_resp = <<>>
      /\ ppc # "panicked" )
        => /\ cycle.before = prev_cycle.before
           /\ Changes(cycle.events) = Changes(prev_cycle.events)
           /\ Changes(cycle.events) # <<>>

C5_Witness ==
    /\ cycle.n = 3
    /\ prev_cycle.outcome = "write_failed"
    /\ cycle.outcome = "write_failed"
    /\ cycle.batch = prev_cycle.batch
    /\ Len(Changes(cycle.events)) = 2

\* C6: when a cycle wrote its batch and the next cycle fetches the same
\* batch, the first sent New/Update events and the second sends no event,
\* stages nothing and writes nothing.
C6_Idempotence ==
    ( /\ prev_cycle.outcome = "written"
      /\ cycle.fetched
      /\ cycle.batch = prev_cycle.batch )
        => /\ Changes(prev_cycle.events) # <<>>
           /\ cycle.events = <<>>
           /\ next_redis_updates = <<>>
           /\ cycle.writes = <<>>
           /\ cache = cycle.before
           /\ cycle.outcome \in {"running", "unchanged"}

C6_Witness ==
    /\ prev_cycle.outcome = "written"
    /\ cycle.fetched
    /\ cycle.batch = prev_cycle.batch
    /\ Len(cycle.batch) = 2
    /\ cycle.outcome = "unchanged"

\* C7: a cycle whose fetch failed sends exactly one Error event and nothing
\* else, attempts no cache write, leaves the store unchanged, and the poller
\* is back at its tick, where the next fetch can start.
C7_FetchFailed ==
    /\ ppc = "send_fetch_error" =>
          /\ cycle.events = <<>>
          /\ margin_data = cycle.before
    /\ cycle.outcome = "fetch_failed" =>
          /\ cycle.events = <<ErrorMsg("fetch")>>
          /\ cycle.writes = <<>>
          /\ margin_data = cycle.before
          /\ cache = cycle.before
          /\ ppc = "tick"
          /\ (Running /\ cycle.n < MaxCycles) => ENABLED FetchOk

C7_Witness ==
    /\ cycle.outcome = "fetch_failed"
    /\ prev_cycle.outcome = "fetch_failed"
    /\ DOMAIN margin_data # {}

\* C8: a cycle performs at most one bulk write, only when the whole batch has
\* been classified; it carries exactly the rows classified New or Update, in
\* order, and no write happens when there is none.  When the write succeeds
\* the store holds every written row afterwards; a row whose asset the store
\* lacked is announced by New.
C8_OneBulkWrite ==
    /\ Len(cycle.writes) <= 1
    /\ cycle.writes # <<>> =>
          /\ latest_binance_resp = <<>>
          /\ Len(cycle.writes[1]) = Len(Changes(cycle.events))
          /\ \A i \in DOMAIN cycle.writes[1] :
                cycle.writes[1][i] =
                    IF Changes(cycle.events)[i].type = "New"
                    THEN Changes(cycle.events)[i].data
                    ELSE Changes(cycle.events)[i].new
    /\ CycleOver => (cycle.writes = <<>> <=> Changes(cycle.events) = <<>>)
    /\ cycle.outcome = "written" =>
          \A s \in Range(cycle.batch) :
             s.asset \notin DOMAIN cycle.before =>
                /\ NewMsg(s) \in Range(cycle.events)
                /\ cycle.writes = <<cycle.writes[1]>>
                /\ s \in Range(cycle.writes[1])
                /\ s.asset \in DOMAIN margin_data
                /\ margin_data[s.asset] = s

C8_Witness ==
    /\ cycle.outcome = "written"
    /\ "X" \notin DOMAIN cycle.before
    /\ "X" \in DOMAIN margin_data
    /\ \E e \in Range(cycle.events) : e.type = "New" /\ e.data.asset = "X"

\* C9: for an Update whose new total_repay is not zero, the consumer builds a
\* report and sends a notification exactly when borrow / repay > 5 and the
\* borrowing grew by at least 1000%, or by at least 10% with at least
\* 1,000,000 USDT borrowed; with a zero old borrowing the change counts as
\* 100%.
Fired(h) ==
    /\ Len(SelectSeq(h.ops, LAMBDA o : o = "build_report")) = 1
    /\ Len(SelectSeq(h.ops, LAMBDA o : o = "send_message")) = 1

GrewBy(u, factor100) ==
    IF u.old.total_borrow = 0
    THEN 100 >= factor100
    ELSE (u.new.total_borrow - u.old.total_borrow) * 100
            >= factor100 * u.old.total_borrow

C9_AlertPolicy ==
    (handled.event.type = "Update" /\ handled.event.new.total_repay # 0)
        => LET u == handled.event IN
           ( Fired(handled)
             <=> /\ u.new.total_borrow > 5 * u.new.total_repay
                 /\ \/ GrewBy(u, 1000)
                    \/ (u.new.total_borrow_in_usdt >= 1000000
                        /\ GrewBy(u, 10)) )

\* borrow 100 -> 1200 at ratio 6, below 1,000,000 USDT: the rapid branch
C9_Witness ==
    /\ handled.event.type = "Update"
    /\ handled.event.old.total_borrow = 100
    /\ handled.event.new.total_borrow = 1200
    /\ handled.event.new.total_repay = 200
    /\ handled.event.new.total_borrow_in_usdt < 1000000
    /\ Fired(handled)

\* C10: taking a New event off the channel sends exactly one message and
\* taking an Error event exactly one error message, nothing else; the
\* condition is not evaluated and the last-update times are left alone.
C10_NewAndError ==
    [][ ( /\ report_queue # <<>>
          /\ Head(report_queue).type \in {"New", "Error"}
          /\ report_queue' = Tail(report_queue) )
        => /\ handled'.event = Head(report_queue)
           /\ handled'.ops = IF Head(report_queue).type = "New"
                             THEN <<"send_message">>
                             ELSE <<"send_error_message">>
           /\ last_update' = last_update
           /\ clock' = clock ]_vars

C10_Witness ==
    /\ handled.event.type = "New"
    /\ handled.ops = <<"send_message">>
    /\ DOMAIN last_update # {}

\* the first operand of the alert predicate, in the words of the claims
GrowthOperand(u) ==
    \/ GrewBy(u, 1000)
    \/ (u.new.total_borrow_in_usdt >= 1000000 /\ GrewBy(u, 10))

\* the alert predicate holds
PredicateTrue(u) ==
    /\ u.new.total_repay # 0
    /\ u.new.total_borrow > 5 * u.new.total_repay
    /\ GrowthOperand(u)

\* the alert predicate is false: the growth operand is, or the ratio is
\* defined and at most 5
PredicateFalse(u) ==
    \/ ~GrowthOperand(u)
    \/ (u.new.total_repay # 0 /\ u.new.total_borrow <= 5 * u.new.total_repay)

\* the consumer takes an Update off the channel and alerts
FireStep ==
    /\ report_queue # <<>>
    /\ Head(report_queue).type = "Update"
    /\ report_queue' = Tail(report_queue)
    /\ handled'.event = Head(report_queue)
    /\ Fired(handled')

OpIndex(ops, o) ==
    IF \E i \in 1..Len(ops) : ops[i] = o
    THEN CHOOSE i \in 1..Len(ops) : ops[i] = o
    ELSE 0

\* C11: when the consumer alerts for an asset it reads the asset's last-update
\* time, then builds the report, then sends one message and only then writes
\* the last-update time; the instant written is the one captured at the
\* decision, before the report was built, and the elapsed minutes reported
\* are counted from the instant on record for the asset (a failed read counts
\* from the present, a failed write leaves the record as it was).
C11_FireSequence ==
    [][ FireStep =>
        LET h == handled'
            asset == Head(report_queue).new.asset
        IN  /\ 0 < OpIndex(h.ops, "get_last_update")
            /\ OpIndex(h.ops, "get_last_update") < OpIndex(h.ops, "build_report")
            /\ OpIndex(h.ops, "build_report") < OpIndex(h.ops, "send_message")
            /\ OpIndex(h.ops, "send_message") < OpIndex(h.ops, "set_last_update")
            /\ Len(SelectSeq(h.ops, LAMBDA o : o = "set_last_update")) = 1
            /\ clock <= h.now /\ h.now <= clock'
            /\ \/ last_update' = last_update
               \/ last_update' =
                     Extend(last_update, [a \in {asset} |-> to_string(h.now)])
            /\ ( /\ asset \in DOMAIN last_update
                 /\ last_update[asset].zone = "UTC" )
               => \/ h.min_diff =
                        num_minutes(h.now - last_update[asset].date_time)
                  \/ \E f \in NotBefore(h.now) :
                        h.min_diff = num_minutes(h.now - f)
      ]_vars

\* the second of two alerts for X, at the later instant, reports the whole
\* minutes since the instant 0 on record and leaves its own instant there
C11_Witness ==
    /\ Fired(handled)
    /\ handled.event = cycle.events[1]
    /\ PredicateTrue(prev_cycle.events[1])
    /\ handled.now > 0
    /\ handled.min_diff >= 1
    /\ handled.min_diff = num_minutes(handled.now)
    /\ "X" \in DOMAIN last_update
    /\ last_update["X"] = to_string(handled.now)
    /\ clock = handled.now

\* C12: an Update for which the alert predicate is false is taken off the
\* channel without a message, without a report (so without fetching any
\* series), without reading or writing a last-update time: the last-update
\* times of all assets stay as they were.
C12_NoFireNoEffect ==
    [][ ( /\ report_queue # <<>>
          /\ Head(report_queue).type = "Update"
          /\ PredicateFalse(Head(report_queue))
          /\ report_queue' # report_queue )
        => /\ report_queue' = Tail(report_queue)
           /\ handled'.event = Head(report_queue)
           /\ \A i \in 1..Len(handled'.ops) :
                 handled'.ops[i] \notin {"send_message", "send_error_message",
                                         "build_report", "get_last_update",
                                         "set_last_update"}
           /\ last_update' = last_update
      ]_vars

\* borrow 100 -> 1100 (1000%) at a ratio of exactly 5, a time on record
C12_Witness ==
    /\ handled.event.type = "Update"
    /\ handled.event.old.total_borrow = 100
    /\ handled.event.new.total_borrow = 1100
    /\ handled.event.new.total_repay = 220
    /\ handled.ops = <<"condition">>
    /\ DOMAIN last_update # {}

\* C13: an Update that satisfies the alert predicate is alerted whatever
\* last-update time is on record for its asset, so two such Updates for one
\* asset taken off the channel one after the other both send a message.
C13_NoSuppression ==
    [][ ( /\ report_queue # <<>>
          /\ Head(report_queue).type = "Update"
          /\ PredicateTrue(Head(report_queue))
          /\ report_queue' # report_queue )
        => FireStep
      ]_vars

\* the second of two Updates of X that both satisfy the predicate has been
\* alerted in the same instant as the first, a time being on record
C13_Witness ==
    /\ report_queue = <<>>
    /\ PredicateTrue(prev_cycle.events[1])
    /\ PredicateTrue(cycle.events[1])
    /\ handled.event = cycle.events[1]
    /\ Fired(handled)
    /\ handled.now = 0
    /\ handled.min_diff = 0
    /\ "X" \in DOMAIN last_update
    /\ last_update["X"] = to_string(0)

\* C14: the channel changes only by an event appended at its tail or by the
\* consumer taking the event at its head, so events leave in the order they
\* entered, none is dropped, duplicated or reordered and each is consumed
\* once.
C14_Fifo ==
    [][ report_queue' # report_queue =>
        \/ /\ Len(report_queue') = Len(report_queue) + 1
           /\ SubSeq(report_queue', 1, Len(report_queue)) = report_queue
        \/ /\ report_queue # <<>>
           /\ report_queue' = Tail(report_queue)
           /\ handled'.event = Head(report_queue)
      ]_vars

\* the poller is at a send().await of its loop
AtSend ==
    /\ ReceiverOpen
    /\ \/ ppc \in {"send_fetch_error", "send_write_error"}
       \/ /\ ppc = "classify"
          /\ latest_binance_resp # <<>>
          /\ ClassifyItem(previous_resp_data, Head(latest_binance_resp)) # <<>>

Suspended == AtSend /\ Len(report_queue) = QueueCap

\* C15: the channel never holds more events than its capacity; while it is
\* full the poller stays at its send with its cycle as it is, and the step
\* that ends the wait is the consumer taking the event at the head, after
\* which the channel is open with room for the pending event, so that nothing
\* is dropped and the rest of the cycle takes place.
C15_Backpressure ==
    [][ /\ Len(report_queue') <= QueueCap
        /\ Suspended => pollerVars' = pollerVars
        /\ (Suspended /\ report_queue' # report_queue)
              => /\ report_queue' = Tail(report_queue)
                 /\ handled'.event = Head(report_queue)
                 /\ ReceiverOpen'
      ]_vars

\* C16: the set the refresher extends is the set the consumer looks pairs up
\* in: an alert for X that fires after a refresh has inserted "XUSDT" finds
\* the pair and its report has the futures section.
C16_SharedSet ==
    [][ ( /\ FireStep
          /\ (Head(report_queue).new.asset \o "USDT") \in futures_symbols )
        => handled'.futures = TRUE
      ]_vars

\* C17: where the poller calls the cache or the upstream service (startup
\* load, fetch of a cycle, bulk write of a cycle) a failed call never ends
\* the task: it becomes an Error event or a log entry and the task goes on.
C17_NoAbort ==
    [][ ( \/ ppc \in {"load", "tick"}
          \/ (ppc = "classify" /\ latest_binance_resp = <<>>) )
        => ppc' # "panicked"
      ]_vars

\* C18: whatever the values of an Update, a new total_repay of 0 included,
\* the consumer either alerts or skips it and is then ready for the next
\* event; no Update ends the consumer task.
C18_Total ==
    [][ ( /\ report_queue # <<>>
          /\ Head(report_queue).type = "Update"
          /\ Len(report_queue') < Len(report_queue) )
        => /\ cpc' = "recv"
           /\ report_queue' = Tail(report_queue)
           /\ handled'.event = Head(report_queue)
           /\ Fired(handled') \/ handled'.ops = <<"condition">>
      ]_vars

Abs(x) == IF x < 0 THEN 0 - x ELSE x

\* ten to the power n
RECURSIVE Pow10(_)
Pow10(n) == IF n = 0 THEN 1 ELSE 10 * Pow10(n - 1)

\* the Decimal returned stands for the value, with at most two fractional
\* digits and no trailing zero among them
TwoDigitsNormalized ==
    /\ calc.decimal.scale \in 0..2
    /\ calc.decimal.mantissa * Pow10(2 - calc.decimal.scale) = calc.result
    /\ calc.decimal.scale > 0 => calc.decimal.mantissa % 10 # 0

\* C19 as stated: for a nonzero old the result is (new - old) / old * 100
\* rounded to two decimal digits, that is the hundredth nearest to it (any
\* rule for ties), with at most two fractional digits and no trailing zeros.
C19_Rounded ==
    (calc.fn = "find_percentage_diff" /\ calc.old # 0)
        => /\ 2 * Abs(calc.result * calc.old - (calc.new - calc.old) * 10000)
                 <= Abs(calc.old)
           /\ TwoDigitsNormalized

\* C19 amended: for a nonzero old the result is (new - old) / old * 100 cut
\* off after two decimal digits, that is the hundredth next to it toward
\* zero, with at most two fractional digits and no trailing zeros.
C19_Truncated ==
    (calc.fn = "find_percentage_diff" /\ calc.old # 0)
        => LET x == (calc.new - calc.old) * 10000
           IN  /\ Abs(calc.result) * Abs(calc.old) <= Abs(x)
               /\ Abs(x) < (Abs(calc.result) + 1) * Abs(calc.old)
               /\ calc.result > 0 => ((x > 0) = (calc.old > 0))
               /\ calc.result < 0 => ((x > 0) # (calc.old > 0))
               /\ TwoDigitsNormalized

\* 3 -> 5 is a change of 66.666...%: the result is 66.66
C19_Witness ==
    /\ calc.fn = "find_percentage_diff"
    /\ calc.new = 5 /\ calc.old = 3
    /\ calc.result = 6666
    /\ calc.decimal = [mantissa |-> 6666, scale |-> 2]

\* C20: for old = 0 the result is exactly 100 whatever new is (zero,
\* positive or negative): the call returns a value, nothing is divided.
C20_ZeroOld ==
    (calc.fn = "find_percentage_diff" /\ calc.old = 0)
        => /\ calc.result = 10000
           /\ calc.decimal = [mantissa |-> 100, scale |-> 0]

\* a negative new against old = 0
C20_Witness ==
    /\ calc.fn = "find_percentage_diff"
    /\ calc.old = 0 /\ calc.new < 0
    /\ calc.result = 10000

\* C21: the percentage change of a nonzero value against itself is 0.
C21_SameValue ==
    (calc.fn = "find_percentage_diff" /\ calc.old # 0 /\ calc.new = calc.old)
        => /\ calc.result = 0
           /\ calc.decimal = [mantissa |-> 0, scale |-> 0]

\* a negative value against itself
C21_Witness ==
    /\ calc.fn = "find_percentage_diff"
    /\ calc.old < 0 /\ calc.new = calc.old
    /\ calc.result = 0

\* --- windowed series
SeriesCall ==
    calc.fn \in {"calculate_volume_changes", "calculate_open_interest_changes",
                 "get_long_short_ratios"}

\* the samples an analyser works on: all of them, of candles the closed ones
Considered ==
    { p \in Range(calc.input) : "is_closed" \in DOMAIN p => p.is_closed }

TimeOf(p) == p[calc.key]

\* position of a sample in the order newest first
Newer(p) == Cardinality({ q \in Considered : TimeOf(q) > TimeOf(p) })

Latest ==
    CHOOSE p \in Considered : \A q \in Considered : TimeOf(q) <= TimeOf(p)

\* minutes a window looks back
LookBack(w) ==
    CASE w = "now" -> 0
      [] w = "5m"  -> 5
      [] w = "15m" -> 15
      [] w = "1h"  -> 60
      [] w = "4h"  -> 240

Offset(w) ==
    CASE w = "now" -> 0
      [] w = "5m"  -> 1
      [] w = "15m" -> 3
      [] w = "1h"  -> 12
      [] w = "4h"  -> 48

Emitted == [i \in DOMAIN calc.result |-> calc.result[i].interval]

Resolvable ==
    SelectSeq(<<"5m", "15m", "1h", "4h">>,
              LAMBDA w : Offset(w) < Cardinality(Considered))

\* the value a Decimal stands for, in hundredths
Hundredths(d) == d.mantissa * Pow10(2 - d.scale)

\* C22: index maps now, 5m, 15m, 1h, 4h to 0, 1, 3, 12, 48, which times the
\* 5 minutes of the grid is the window's look-back (0, 5, 15, 60, 240
\* minutes); in a gapless series the sample picked for a window is exactly
\* that many minutes older than the newest sample.
C22_WindowOffsets ==
    /\ calc.fn = "index"
          => /\ calc.result = Offset(calc.interval)
             /\ calc.result * GridMinutes = LookBack(calc.interval)
    /\ (SeriesCall /\ calc.gapless)
          => \A i \in DOMAIN calc.windows :
                TimeOf(Latest) - TimeOf(calc.windows[i].point)
                    = LookBack(calc.windows[i].interval)

\* a gapless response, oldest sample first, long enough for all four windows
C22_Witness ==
    /\ calc.fn = "calculate_open_interest_changes"
    /\ calc.gapless
    /\ Len(calc.input) = 49
    /\ calc.input[1].datetime < calc.input[2].datetime
    /\ Len(calc.windows) = 4
    /\ calc.windows[4].interval = "4h"
    /\ calc.windows[4].point.datetime = LatestTime - 240

\* C23: of the windows 5m, 15m, 1h, 4h exactly those whose offset is below
\* the number n of samples (closed candles) appear in a result, in that
\* order; the others are left out and the call still returns. The ratio
\* analyser puts now in front whenever n > 0.
C23_Resolvable ==
    SeriesCall
        => Emitted = IF calc.fn = "get_long_short_ratios"
                         /\ Considered # {}
                     THEN <<"now">> \o Resolvable
                     ELSE Resolvable

\* ten samples: now, 5m and 15m only
C23_Witness ==
    /\ calc.fn = "get_long_short_ratios"
    /\ Len(calc.input) = 10
    /\ Emitted = <<"now", "5m", "15m">>

\* C24: a volume entry carries the percentage change of the newest closed
\* candle's sell and buy quote volume against those of the candle at the
\* window's offset, newest first; an open-interest entry carries the change
\* of the newest sample's aggregate value against that of the sample at the
\* window's offset.
C24_Changes ==
    /\ calc.fn = "calculate_volume_changes"
          => \A i \in DOMAIN calc.result :
                LET latest == Latest
                IN \E p \in Considered :
                      /\ Newer(p) = Offset(calc.result[i].interval)
                      /\ calc.result[i] =
                           [interval |-> calc.result[i].interval,
                            sell |-> find_percentage_diff(
                                         latest.sell_quote_volume,
                                         p.sell_quote_volume),
                            buy |-> find_percentage_diff(
                                        latest.buy_quote_volume,
                                        p.buy_quote_volume)]
    /\ calc.fn = "calculate_open_interest_changes"
          => \A i \in DOMAIN calc.result :
                LET latest == Latest
                IN \E p \in Considered :
                      /\ Newer(p) = Offset(calc.result[i].interval)
                      /\ calc.result[i] =
                           [interval |-> calc.result[i].interval,
                            change |-> find_percentage_diff(
                                           latest.sum_open_interest_value,
                                           p.sum_open_interest_value)]

\* candles oldest first, the newest still open, sell down and buy up
C24_Witness ==
    /\ calc.fn = "calculate_volume_changes"
    /\ Len(calc.result) = 4
    /\ \E p \in Range(calc.input) : ~p.is_closed
    /\ calc.input[1].open_time < calc.input[2].open_time
    /\ \E i \in DOMAIN calc.result :
          calc.result[i].sell < 0 /\ calc.result[i].buy > 0

\* C25: for a non-empty ratio series the first entry is now with the newest
\* sample's ratio cut off after two decimal digits; the entries after it are
\* the resolvable windows in the order 5m, 15m, 1h, 4h, each with the ratio
\* of the sample at its offset cut off after two decimal digits.
C25_Ratios ==
    (calc.fn = "get_long_short_ratios" /\ Considered # {})
        => /\ Emitted = <<"now">> \o Resolvable
           /\ \A i \in DOMAIN calc.result :
                 \E p \in Considered :
                    LET v == Hundredths(calc.result[i].ratio)
                        m == p.long_short_ratio.mantissa
                    IN /\ Newer(p) = Offset(calc.result[i].interval)
                       /\ calc.result[i].ratio.scale \in 0..2
                       /\ v * 100 <= m
                       /\ m < (v + 1) * 100

\* all five entries, the newest ratio with a third digit of 5 or more
C25_Witness ==
    /\ calc.fn = "get_long_short_ratios"
    /\ Len(calc.result) = 5
    /\ calc.result[1].interval = "now"
    /\ Latest.long_short_ratio.mantissa % 100 >= 50
    /\ Hundredths(calc.result[1].ratio)
          = Latest.long_short_ratio.mantissa \div 100

\* --- startup
\* the step on which load returns
LoadReturns == ppc = "load" /\ ppc' = "tick"

\* C28: when load returns, a non-empty cache has become the store with no
\* fetch and no cache write, an empty cache has led to one fetch whose
\* result is now both the store and the cache; load sends nothing and no New
\* or Update is sent before the first cycle, the first cycle works on that
\* initial store and sends New only for entities absent from it.
C28_Startup ==
    /\ [][LoadReturns
            => /\ report_queue' = report_queue
               /\ IF DOMAIN cache # {}
                  THEN /\ margin_data' = cache
                       /\ cache' = cache
                       /\ load_calls' = <<"get_all_margin_data">>
                  ELSE /\ load_calls' = <<"get_all_margin_data",
                                          "get_margin_data_filtered",
                                          "set_margin_data_bulk">>
                       /\ margin_data' \in
                             { ToMap(data) : data \in FilteredResponses }
                       /\ cache' = margin_data'
         ]_vars
    /\ [][cycle.n = 0
            => /\ loaded => margin_data' = margin_data
               /\ cycle'.n = 1 => cycle'.before = margin_data
         ]_vars
    /\ [](cycle.n = 0 => Changes(report_queue) = <<>>)
    /\ [](cycle.n = 1
            => \A i \in DOMAIN cycle.events :
                  cycle.events[i].type = "New"
                     => cycle.events[i].data.asset \notin DOMAIN cycle.before)

\* a first launch seeded store and cache with one entity; the first cycle
\* has sent New for another one
C28_Witness ==
    /\ load_calls = <<"get_all_margin_data", "get_margin_data_filtered",
                      "set_margin_data_bulk">>
    /\ cycle.n = 1
    /\ cycle.before # EmptyMap
    /\ \E i \in DOMAIN cycle.events :
          /\ cycle.events[i].type = "New"
          /\ cycle.events[i].data.asset \notin DOMAIN cycle.before

\* C29: an Update whose new borrow/repay ratio is defined and at most 5 is
\* taken off the channel without a report and without a message, however
\* much the borrowing grew and however much is borrowed.
C29_LowRatio ==
    ( /\ handled.event.type = "Update"
      /\ handled.event.new.total_repay # 0
      /\ handled.event.new.total_borrow <= 5 * handled.event.new.total_repay )
        => /\ ~Fired(handled)
           /\ handled.ops = <<"condition">>

\* borrow 100 -> 1200 (1100%) with 1,000,000 USDT borrowed at a ratio of
\* exactly 5
C29_Witness ==
    /\ handled.event.type = "Update"
    /\ handled.event.old.total_borrow = 100
    /\ handled.event.new.total_borrow = 1200
    /\ handled.event.new.total_repay = 240
    /\ handled.event.new.total_borrow_in_usdt = 1000000
    /\ handled.ops = <<"condition">>

\* C30: the margin section of a fired alert's report carries the new
\* snapshot's total borrowed, total borrowed in USDT, total repaid, total
\* repaid in USDT and available, and the borrow change, repay change and
\* borrow/repay ratio of the event's own old and new snapshot.
C30_MarginSection ==
    Fired(handled)
        => LET u == handled.event
               m == handled.margin_data
           IN /\ m.total_borrow = u.new.total_borrow
              /\ m.total_borrow_usdt = u.new.total_borrow_in_usdt
              /\ m.total_repay = u.new.total_repay
              /\ m.total_repay_usdt = u.new.total_repay_in_usdt
              /\ m.available = u.new.available
              /\ m.borrow_change
                    = find_percentage_diff(u.new.total_borrow,
                                           u.old.total_borrow)
              /\ m.repay_change
                    = find_percentage_diff(u.new.total_repay,
                                           u.old.total_repay)
              /\ m.br_ratio.num * u.new.total_repay
                    = m.br_ratio.den * u.new.total_borrow

\* C31: a fired alert shows "never" as the time since the last signal
\* exactly when no last-update time is on record for the asset; with a time
\* on record, however recent, it shows the time elapsed since it.
C31_NeverSentinel ==
    [][ FireStep
        => LET asset == Head(report_queue).new.asset
           IN handled'.last_signal.text = "never"
                 <=> asset \notin DOMAIN last_update
      ]_vars

\* the candles of the input that are closed, and the newest of them
ClosedCandles == { p \in Range(calc.input) : p.is_closed }

LatestClosed ==
    CHOOSE p \in ClosedCandles :
        \A q \in ClosedCandles : q.open_time <= p.open_time

\* C32: the volume analyser works on closed candles only: every candle it
\* picks is closed and has as many closed candles newer than it as its
\* window's offset, the changes are taken against the newest closed candle
\* even when an open candle is newer, and 50 candles of which one is open
\* give all four windows.
C32_ClosedOnly ==
    calc.fn = "calculate_volume_changes"
        => /\ Len(calc.result) = Len(calc.windows)
           /\ \A i \in DOMAIN calc.windows :
                 LET w == calc.windows[i]
                     latest == LatestClosed
                 IN /\ w.point.is_closed
                    /\ Cardinality({ q \in ClosedCandles :
                                       q.open_time > w.point.open_time })
                          = Offset(w.interval)
                    /\ calc.result[i].interval = w.interval
                    /\ calc.result[i].sell =
                          find_percentage_diff(latest.sell_quote_volume,
                                               w.point.sell_quote_volume)
                    /\ calc.result[i].buy =
                          find_percentage_diff(latest.buy_quote_volume,
                                               w.point.buy_quote_volume)
           /\ ( /\ Len(calc.input) = 50
                /\ Cardinality(Range(calc.input) \ ClosedCandles) = 1 )
                 => Emitted = <<"5m", "15m", "1h", "4h">>

\* 50 candles, the newest of them still open: four windows, the 4h one taken
\* from the oldest candle
C32_Witness ==
    /\ calc.fn = "calculate_volume_changes"
    /\ Len(calc.input) = 50
    /\ \E p \in Range(calc.input) :
          /\ ~p.is_closed
          /\ \A q \in Range(calc.input) : q.open_time <= p.open_time
    /\ Len(calc.result) = 4
    /\ \A q \in Range(calc.input) :
          calc.windows[4].point.open_time <= q.open_time

\* C33: an analyser whose series is empty once open candles are dropped
\* returns the empty result: the volume analyser also when all its candles
\* are open, the ratio analyser without a now entry.
C33_EmptySeries ==
    (SeriesCall /\ Considered = {}) => calc.result = <<>>

\* a response whose only candle is still open
C33_Witness ==
    /\ calc.fn = "calculate_volume_changes"
    /\ calc.input # <<>>
    /\ \A p \in Range(calc.input) : ~p.is_closed
    /\ calc.result = <<>>

\* C34: for samples of pairwise distinct times the result of an analyser
\* is the same in whatever order the samples arrive.
C34_OrderIndependent ==
    (SeriesCall /\ "reordered" \in DOMAIN calc)
        => /\ Range(calc.input) = Range(calc.reordered)
           /\ Len(calc.input) = Len(calc.reordered)
           /\ \A i, j \in DOMAIN calc.input :
                 i # j => TimeOf(calc.input[i]) # TimeOf(calc.input[j])
           /\ calc.result = calc.result_reordered

\* 49 ratio samples arriving neither oldest first nor newest first
C34_Witness ==
    /\ calc.fn = "get_long_short_ratios"
    /\ "reordered" \in DOMAIN calc
    /\ Len(calc.input) = 49
    /\ \E i \in 1..48 : calc.input[i].datetime < calc.input[i + 1].datetime
    /\ \E i \in 1..48 : calc.input[i].datetime > calc.input[i + 1].datetime
    /\ Len(calc.result) = 5
    /\ calc.result = calc.result_reordered

\* --- retention
BatchAssets(c) == { c.batch[i].asset : i \in DOMAIN c.batch }

\* C35: an entity of the store stays in it. A step never removes an asset
\* from the store and leaves the snapshot of an asset the cycle's batch omits
\* as it is; a cycle sends no New or Update for an asset its batch omits; it
\* starts from the store as retained, sends New only for assets that store
\* lacks and Update only with the retained snapshot as old.
C35_Retained ==
    /\ [][ /\ DOMAIN margin_data \subseteq DOMAIN margin_data'
           /\ \A a \in DOMAIN margin_data :
                 a \notin BatchAssets(cycle) => margin_data'[a] = margin_data[a]
           /\ cycle'.n = cycle.n + 1 => cycle'.before = margin_data
         ]_vars
    /\ [](\A i \in DOMAIN cycle.events :
             LET e == cycle.events[i]
             IN /\ e.type = "New"
                   => /\ e.data.asset \in BatchAssets(cycle)
                      /\ e.data.asset \notin DOMAIN cycle.before
                /\ e.type = "Update"
                   => /\ e.new.asset \in BatchAssets(cycle)
                      /\ e.new.asset \in DOMAIN cycle.before
                      /\ e.old = cycle.before[e.new.asset])

\* X was in the store when a cycle fetched a batch without it; the next
\* cycle fetches X changed and sends Update against the snapshot retained
C35_Witness ==
    /\ prev_cycle.fetched
    /\ "X" \in DOMAIN prev_cycle.before
    /\ "X" \notin BatchAssets(prev_cycle)
    /\ prev_cycle.batch # <<>>
    /\ \E i \in DOMAIN cycle.events :
          /\ cycle.events[i].type = "Update"
          /\ cycle.events[i].new.asset = "X"
          /\ cycle.events[i].old = prev_cycle.before["X"]

\* --- progress
\* C36: no enqueued event is lost before the consumer has processed it and
\* no task is stuck: on every step each event in the channel either stays in
\* the channel, moving up by at most one place, or is the head that the
\* consumer has taken and handled while remaining ready for the next event;
\* and whenever the poller waits at a full channel the consumer is there to
\* take the head.
C36_Progress ==
    /\ [][ \A i \in DOMAIN report_queue :
              \/ /\ i = 1
                 /\ report_queue' = Tail(report_queue)
                 /\ handled'.event = report_queue[1]
                 /\ cpc' = "recv"
              \/ /\ i \in DOMAIN report_queue'
                 /\ report_queue'[i] = report_queue[i]
              \/ /\ i > 1
                 /\ report_queue'[i - 1] = report_queue[i]
         ]_vars
    /\ []((ReceiverOpen /\ Len(report_queue) = QueueCap) => cpc = "recv")

\* --- serial polling
\* C37: a cycle starts only from the poller's tick, after the cycle before
\* has ended with its write merged or abandoned, and the store it reads is
\* the one that cycle left; the store and its clone change only on steps of
\* the poller (load, the clone at the start of a cycle, the merge after a
\* successful write), never on a step of the consumer or of main.
C37_Serial ==
    [][ /\ cycle'.n # cycle.n =>
              /\ cycle'.n = cycle.n + 1
              /\ ppc = "tick"
              /\ cycle.n = 0 \/ CycleOver
              /\ cycle'.before = margin_data
              /\ cycle.n > 0 =>
                    margin_data =
                        IF cycle.outcome = "written"
                        THEN Extend(cycle.before,
                                    ToMap(cycle.writes[Len(cycle.writes)]))
                        ELSE cycle.before
        /\ previous_resp_data' # previous_resp_data =>
              /\ cycle'.n = cycle.n + 1
              /\ previous_resp_data' = margin_data
        /\ margin_data' # margin_data =>
              /\ ppc \in {"load", "classify"}
              /\ ppc' = "tick"
              /\ ppc = "classify" => cycle'.outcome = "written"
        /\ <<margin_data, previous_resp_data>>'
              # <<margin_data, previous_resp_data>> =>
              UNCHANGED <<consumerVars, mpc, report_queue>>
      ]_vars

\* the third cycle has read the store that the second cycle's merge changed
C37_Witness ==
    /\ cycle.n >= 2
    /\ cycle.fetched
    /\ prev_cycle.outcome = "written"
    /\ cycle.before # prev_cycle.before
    /\ cycle.before =
          Extend(prev_cycle.before,
                 ToMap(prev_cycle.writes[Len(prev_cycle.writes)]))
    /\ previous_resp_data = cycle.before

\* --- the refresher's instrument set
\* the symbols a response can list as trading perpetual contracts
TradingPerpetuals == get_futures_exchange_info_pairs(FuturesListings)

\* C38: no step removes a symbol from the refresher's set; the set changes
\* only in a round that succeeded and then becomes the old set joined with
\* the trading perpetual symbols that round returned; a round that failed
\* leaves the set as it was, and after it the refresher can run a next round.
C38_GrowOnly ==
    /\ [][ /\ futures_symbols \subseteq futures_symbols'
           /\ refreshed' # refreshed /\ refreshed'.round = "ok" =>
                 /\ refreshed'.data \subseteq TradingPerpetuals
                 /\ futures_symbols' = futures_symbols \cup refreshed'.data
           /\ refreshed' # refreshed /\ refreshed'.round = "err" =>
                 futures_symbols' = futures_symbols
           /\ futures_symbols' # futures_symbols => refreshed'.round = "ok"
         ]_vars
    /\ [](refreshed.round = "err" => ENABLED RefreshOk)

\* a round has succeeded without returning XUSDT, and XUSDT, added by an
\* earlier round, is still in the set
C38_Witness ==
    /\ refreshed.round = "ok"
    /\ "XUSDT" \in futures_symbols
    /\ "XUSDT" \notin refreshed.data

\* C26: the alignment target of an instant t has second 0 and a minute that
\* is 1 modulo 5, is later than t, and lies one minute after the first
\* 5-minute grid minute at or after the minute of t, across the hour and the
\* day as well: 18:11:06 -> 18:16:00, 18:00:01 -> 18:01:00,
\* 18:59:59 -> 19:01:00, 23:59:20 -> 00:01:00 of the next day.
C26_TimeSlot ==
    calc.fn = "get_time_slot"
        => LET t == calc.date
               r == calc.result
               grid == r - 60
               start == t - (t % 60)
           IN  /\ r % 60 = 0
               /\ ((r \div 60) % 60) % 5 = 1
               /\ r > t
               /\ grid % 300 = 0
               /\ grid >= start
               /\ grid - 300 < start
               /\ t = HMS(0, 18, 11, 6) => r = HMS(0, 18, 16, 0)
               /\ t = HMS(0, 18, 0, 1) => r = HMS(0, 18, 1, 0)
               /\ t = HMS(0, 18, 59, 59) => r = HMS(0, 19, 1, 0)
               /\ t = HMS(0, 23, 59, 20) => r = HMS(1, 0, 1, 0)

\* 23:59:20 lands on 00:01:00 of the next day
C26_Witness ==
    /\ calc.fn = "get_time_slot"
    /\ calc.date = HMS(0, 23, 59, 20)
    /\ calc.result = HMS(1, 0, 1, 0)

\* C27 as stated: the delay is computed without failure and lies between 60
\* and 360 seconds.
C27_OneToSixMinutes ==
    calc.fn = "get_time_slot"
        => /\ ~calc.delay.failed
           /\ 60 <= calc.delay.secs
           /\ calc.delay.secs <= 360

\* C27 amended: the delay is computed without failure and lies between 1
\* second (a grid minute at second 59) and 300 seconds (the minute after a
\* grid minute at second 0).
C27_OneSecondToFiveMinutes ==
    calc.fn = "get_time_slot"
        => /\ ~calc.delay.failed
           /\ 1 <= calc.delay.secs
           /\ calc.delay.secs <= 300
           /\ (minute(calc.date) % 5 = 0 /\ second(calc.date) = 59)
                 => calc.delay.secs = 1
           /\ (minute(calc.date) % 5 = 1 /\ second(calc.date) = 0)
                 => calc.delay.secs = 300

\* at 18:00:59 the delay is one second
C27_Witness ==
    /\ calc.fn = "get_time_slot"
    /\ calc.date = HMS(0, 18, 0, 59)
    /\ calc.delay = [secs |-> 1, failed |-> FALSE]
====
